------------------------- MODULE EzoLinuxDeviceProofs -------------------------
(***************************************************************************)
(* Proofs about the Linux device facade, for every number of devices,      *)
(* paths and descriptors and every interleaving of their calls.            *)
(***************************************************************************)
EXTENDS EzoLinuxDeviceProps, TLAPS

Places == {"idle", "getattr", "setattr", "restore", "close", "commit"}

DeviceStep(d) ==
  \/ OpenFails(d)
  \/ \E p \in PathsOf(d) : \E b \in BaudsOf(d) : OpenFile(d, p, b)
  \/ GetAttr(d) \/ SetAttr(d) \/ AttrFails(d)
  \/ Restore(d) \/ CloseOld(d) \/ Commit(d) \/ Close(d)

(* A session is none at all, or a descriptor on a path the device may have. *)
Sound(d, r) ==
  IF r.fd = NoFd THEN r = NoSession ELSE r.path \in PathsOf(d) /\ r.baud \in BaudsOf(d)

Shape(d) ==
  /\ Sound(d, session[d]) /\ Sound(d, next[d])
  /\ pc[d] \in {"getattr", "setattr", "restore"} => d \in Uarts

(* The session's descriptor is open until close(2) returns. *)
Live(d) == pc[d] # "commit" /\ session[d].fd # NoFd
Fresh(d) == next[d].fd # NoFd

EveryFileHeld ==
  \A f \in Fd : file[f] # Free =>
    \E d \in Devices : (Live(d) /\ session[d].fd = f) \/ next[d].fd = f

OnItsPath ==
  \A d \in Devices :
    /\ Live(d) => file[session[d].fd] = session[d].path
    /\ Fresh(d) => file[next[d].fd] = next[d].path

HeldOnce ==
  \A d, e \in Devices :
    /\ d # e /\ Live(d) /\ Live(e) => session[d].fd # session[e].fd
    /\ d # e /\ Fresh(d) /\ Fresh(e) => next[d].fd # next[e].fd
    /\ Live(d) /\ Fresh(e) => session[d].fd # next[e].fd

FilesInv ==
  /\ DeviceTypeOK
  /\ \A d \in Devices : Shape(d)
  /\ EveryFileHeld /\ OnItsPath /\ HeldOnce

Others(d) ==
  \A e \in Devices : e # d =>
    session'[e] = session[e] /\ next'[e] = next[e] /\ pc'[e] = pc[e]

-----------------------------------------------------------------------------
LEMMA NextIsDeviceStep == Next <=> \E d \in Devices : DeviceStep(d)
  BY DEF Next, DeviceStep

LEMMA NoSessionType == NoSession \in Session
  BY DeviceAssumption DEF NoSession, Session, Settings

LEMMA HandOverType ==
  ASSUME NEW d \in Devices
  PROVE  /\ HandOver(d) \in {"commit", "restore", "close"}
         /\ HandOver(d) = "commit" <=> ~IsOpen(d)
         /\ HandOver(d) = "restore" => d \in Uarts
  BY DEF HandOver

(* A device's step leaves the sessions and the calls of the others alone. *)
LEMMA StepIsLocal ==
  ASSUME DeviceTypeOK, NEW d \in Devices, DeviceStep(d)
  PROVE  Others(d)
<1>1. /\ session' = session \/ session' = [session EXCEPT ![d] = next[d]]
      /\ next' = next \/ (\E r : next' = [next EXCEPT ![d] = r])
      /\ \E where : pc' = [pc EXCEPT ![d] = where]
  BY DEF DeviceStep, OpenFails, OpenFile, GetAttr, SetAttr, AttrFails, Restore, CloseOld,
         Commit, Close, Return, Step
<1> QED
  BY <1>1 DEF DeviceTypeOK, Others

LEMMA FilesInit == Init => FilesInv
<1> SUFFICES ASSUME Init PROVE FilesInv
  OBVIOUS
<1> USE DeviceAssumption DEF Init
<1>1. DeviceTypeOK
  BY NoSessionType DEF DeviceTypeOK, Settings
<1>2. \A d \in Devices : Shape(d) /\ ~Live(d) /\ ~Fresh(d)
  BY DEF Shape, Sound, NoSession, Live, Fresh
<1> QED
  BY <1>1, <1>2 DEF FilesInv, EveryFileHeld, OnItsPath, HeldOnce

-----------------------------------------------------------------------------
(***************************************************************************)
(* Types and shapes.                                                       *)
(***************************************************************************)
(* What a step does to the device that takes it, whatever it does to the   *)
(* descriptors and the lines.                                              *)
LEMMA TypeFrom ==
  ASSUME DeviceTypeOK, NEW d \in Devices,
         NEW r \in Session, NEW n \in Session, NEW where \in Places,
         NEW a \in {"none", "failed", "opened", "closed"},
         session' = [session EXCEPT ![d] = r], next' = [next EXCEPT ![d] = n],
         pc' = [pc EXCEPT ![d] = where], ret' = [ret EXCEPT ![d] = a],
         file' \in [Fd -> Paths \cup {Free}], line' \in [Ttys -> Settings],
         broken' \subseteq Ttys,
         where = "idle" => n = NoSession,
         where \in {"getattr", "setattr"} => n.fd # NoFd,
         where \in {"restore", "close"} => r.fd # NoFd
  PROVE  /\ DeviceTypeOK' /\ session'[d] = r /\ next'[d] = n /\ pc'[d] = where
<1>1. /\ session' \in [Devices -> Session] /\ next' \in [Devices -> Session]
      /\ pc' \in [Devices -> Places]
      /\ ret' \in [Devices -> {"none", "failed", "opened", "closed"}]
  BY DEF DeviceTypeOK, Places
<1>2. /\ session'[d] = r /\ next'[d] = n /\ pc'[d] = where
      /\ \A e \in Devices : e # d =>
           session'[e] = session[e] /\ next'[e] = next[e] /\ pc'[e] = pc[e]
  BY DEF DeviceTypeOK
<1>3. \A e \in Devices :
        /\ pc'[e] = "idle" => next'[e] = NoSession
        /\ pc'[e] \in {"getattr", "setattr"} => next'[e].fd # NoFd
        /\ pc'[e] \in {"restore", "close"} => session'[e].fd # NoFd
  BY <1>2 DEF DeviceTypeOK, IsOpen
<1> QED
  BY <1>1, <1>2, <1>3 DEF DeviceTypeOK, Places, IsOpen

(* The session and the call in progress of the device after each step.     *)
After(d, r, n, where) == session'[d] = r /\ next'[d] = n /\ pc'[d] = where

WithSaved(r, s) == [fd |-> r.fd, saved |-> s, path |-> r.path, baud |-> r.baud]

LEMMA DeviceTypeStep ==
  ASSUME FilesInv, NEW d \in Devices
  PROVE  /\ OpenFails(d) => DeviceTypeOK' /\ After(d, session[d], NoSession, "idle")
         /\ \A p \in PathsOf(d), b \in BaudsOf(d), f \in Fd :
              LET n == [fd |-> f, saved |-> AsFound, path |-> p, baud |-> b] IN
              OpenFile(d, p, b) /\ next'[d].fd = f =>
                /\ DeviceTypeOK'
                /\ After(d, session[d], n, IF d \in Uarts THEN "getattr" ELSE HandOver(d))
         /\ GetAttr(d) => /\ DeviceTypeOK'
                          /\ After(d, session[d], WithSaved(next[d], line[next[d].path]), "setattr")
         /\ SetAttr(d) => DeviceTypeOK' /\ After(d, session[d], next[d], HandOver(d))
         /\ AttrFails(d) => DeviceTypeOK' /\ After(d, session[d], NoSession, "idle")
         /\ Restore(d) => DeviceTypeOK' /\ After(d, session[d], next[d], "close")
         /\ CloseOld(d) => DeviceTypeOK' /\ After(d, session[d], next[d], "commit")
         /\ Commit(d) => DeviceTypeOK' /\ After(d, next[d], NoSession, "idle")
         /\ Close(d) => DeviceTypeOK' /\ After(d, session[d], next[d], HandOver(d))
<1> USE DeviceAssumption, NoSessionType, HandOverType DEF After, Places
<1>0. /\ DeviceTypeOK /\ session[d] \in Session /\ next[d] \in Session /\ pc[d] \in Places
      /\ ret[d] \in {"none", "failed", "opened", "closed"}
      /\ session = [session EXCEPT ![d] = session[d]] /\ next = [next EXCEPT ![d] = next[d]]
      /\ pc = [pc EXCEPT ![d] = pc[d]] /\ ret = [ret EXCEPT ![d] = ret[d]]
      /\ \A e \in Devices : pc[e] = "idle" => next[e] = NoSession
      /\ \A f \in Fd : CloseFd(f) => file' \in [Fd -> Paths \cup {Free}]
  BY DEF FilesInv, DeviceTypeOK, CloseFd
<1>1. ASSUME OpenFails(d) PROVE DeviceTypeOK' /\ After(d, session[d], NoSession, "idle")
  <2>1. /\ session' = [session EXCEPT ![d] = session[d]] /\ next' = [next EXCEPT ![d] = NoSession]
        /\ pc' = [pc EXCEPT ![d] = "idle"] /\ ret' = [ret EXCEPT ![d] = "failed"]
        /\ file' \in [Fd -> Paths \cup {Free}] /\ line' \in [Ttys -> Settings] /\ broken' \subseteq Ttys
    BY <1>0, <1>1 DEF OpenFails, Return, Step, DeviceTypeOK
  <2> QED
    BY <1>0, <2>1, TypeFrom
<1>2. ASSUME NEW p \in PathsOf(d), NEW b \in BaudsOf(d), NEW f \in Fd,
             OpenFile(d, p, b), next'[d].fd = f
      PROVE  LET n == [fd |-> f, saved |-> AsFound, path |-> p, baud |-> b] IN
             /\ DeviceTypeOK'
             /\ After(d, session[d], n, IF d \in Uarts THEN "getattr" ELSE HandOver(d))
  <2> DEFINE n == [fd |-> f, saved |-> AsFound, path |-> p, baud |-> b]
             where == IF d \in Uarts THEN "getattr" ELSE HandOver(d)
  <2>1. next' = [next EXCEPT ![d] = n] /\ file' = [file EXCEPT ![f] = p]
    BY <1>0, <1>2 DEF OpenFile, DeviceTypeOK
  <2>2. n \in Session /\ p \in Paths
    BY DEF Session, Settings, Paths, PathsOf, BaudsOf, Devices
  <2>3. file' \in [Fd -> Paths \cup {Free}]
    BY <1>0, <2>1, <2>2 DEF DeviceTypeOK
  <2>4. where \in Places /\ (where \in {"restore", "close"} => session[d].fd # NoFd)
    BY DEF IsOpen
  <2>5. n.fd # NoFd /\ where # "idle"
    BY DEF NoFd, Fd
  <2>6. pc' = [pc EXCEPT ![d] = where] /\ ret' = [ret EXCEPT ![d] = "none"]
    BY <1>2 DEF OpenFile, Step
  <2>7. UNCHANGED <<line, session, broken>>
    BY <1>2 DEF OpenFile
  <2> HIDE DEF n, where
  <2>8. DeviceTypeOK' /\ session'[d] = session[d] /\ next'[d] = n /\ pc'[d] = where
    BY <1>0, <2>1, <2>2, <2>3, <2>4, <2>5, <2>6, <2>7, TypeFrom DEF DeviceTypeOK
  <2> QED
    BY <2>8 DEF n, where
<1>3. ASSUME GetAttr(d)
      PROVE  DeviceTypeOK' /\ After(d, session[d], WithSaved(next[d], line[next[d].path]), "setattr")
  <2>1. next[d].fd # NoFd /\ next[d].fd \in Fd /\ d \in Uarts
    BY <1>0, <1>3 DEF GetAttr, DeviceTypeOK, Session, FilesInv, Shape
  <2>2. file[next[d].fd] = next[d].path /\ next[d].path \in Ttys
    BY <2>1 DEF FilesInv, OnItsPath, Fresh, Shape, Sound, PathsOf
  <2>3. line[next[d].path] \in Settings
    BY <1>0, <2>2 DEF DeviceTypeOK
  <2>4. next' = [next EXCEPT ![d] = WithSaved(next[d], line[next[d].path])]
    <3>1. [next[d] EXCEPT !.saved = line[next[d].path]] = WithSaved(next[d], line[next[d].path])
      BY <1>0 DEF WithSaved, Session
    <3> QED
      BY <1>3, <2>2, <3>1 DEF GetAttr
  <2>5. /\ WithSaved(next[d], line[next[d].path]) \in Session
        /\ WithSaved(next[d], line[next[d].path]).fd = next[d].fd
    BY <1>0, <2>3 DEF WithSaved, Session
  <2>6. /\ session' = [session EXCEPT ![d] = session[d]] /\ next' = [next EXCEPT ![d] = WithSaved(next[d], line[next[d].path])]
        /\ pc' = [pc EXCEPT ![d] = "setattr"] /\ ret' = [ret EXCEPT ![d] = ret[d]]
        /\ file' \in [Fd -> Paths \cup {Free}] /\ line' \in [Ttys -> Settings] /\ broken' \subseteq Ttys
    BY <1>0, <1>3, <2>4 DEF GetAttr, Step, DeviceTypeOK
  <2> QED
    BY <1>0, <2>1, <2>5, <2>6, TypeFrom
<1>4. ASSUME SetAttr(d) PROVE DeviceTypeOK' /\ After(d, session[d], next[d], HandOver(d))
  <2>1. next[d].baud \in Settings
    BY <1>0 DEF Session
  <2>2. line' \in [Ttys -> Settings]
    BY <1>0, <1>4, <2>1 DEF SetAttr, DeviceTypeOK
  <2>3. HandOver(d) \in {"restore", "close"} => session[d].fd # NoFd
    BY DEF IsOpen
  <2>4. /\ session' = [session EXCEPT ![d] = session[d]] /\ next' = [next EXCEPT ![d] = next[d]]
        /\ pc' = [pc EXCEPT ![d] = HandOver(d)] /\ ret' = [ret EXCEPT ![d] = ret[d]]
        /\ file' \in [Fd -> Paths \cup {Free}] /\ line' \in [Ttys -> Settings] /\ broken' \subseteq Ttys
    BY <1>0, <1>4, <2>2 DEF SetAttr, Step, DeviceTypeOK
  <2> QED
    BY <1>0, <2>3, <2>4, TypeFrom
<1>5. ASSUME AttrFails(d) PROVE DeviceTypeOK' /\ After(d, session[d], NoSession, "idle")
  <2>1. next[d].fd \in Fd
    BY <1>0, <1>5 DEF AttrFails, DeviceTypeOK, Session
  <2> QED
    BY <1>0, <1>5, <2>1, TypeFrom DEF AttrFails, Return, Step, DeviceTypeOK
<1>6. ASSUME Restore(d) PROVE DeviceTypeOK' /\ After(d, session[d], next[d], "close")
  <2>1. session[d].fd # NoFd /\ d \in Uarts /\ Live(d)
    BY <1>0, <1>6 DEF Restore, DeviceTypeOK, FilesInv, Shape, IsOpen, Live
  <2>2. file[session[d].fd] \in Ttys
    BY <2>1 DEF FilesInv, OnItsPath, Shape, Sound, PathsOf
  <2>3. session[d].saved \in Settings
    BY <1>0 DEF Session
  <2>4. line' \in [Ttys -> Settings] /\ broken' \subseteq Ttys
    BY <1>0, <1>6, <2>2, <2>3 DEF Restore, DeviceTypeOK
  <2>5. /\ session' = [session EXCEPT ![d] = session[d]] /\ next' = [next EXCEPT ![d] = next[d]]
        /\ pc' = [pc EXCEPT ![d] = "close"] /\ ret' = [ret EXCEPT ![d] = ret[d]]
        /\ file' \in [Fd -> Paths \cup {Free}] /\ line' \in [Ttys -> Settings] /\ broken' \subseteq Ttys
    BY <1>0, <1>6, <2>4 DEF Restore, Step, DeviceTypeOK
  <2> QED
    BY <1>0, <2>1, <2>5, TypeFrom
<1>7. ASSUME CloseOld(d) PROVE DeviceTypeOK' /\ After(d, session[d], next[d], "commit")
  <2>1. session[d].fd \in Fd
    BY <1>0, <1>7 DEF CloseOld, DeviceTypeOK, Session, IsOpen
  <2>2. /\ session' = [session EXCEPT ![d] = session[d]] /\ next' = [next EXCEPT ![d] = next[d]]
        /\ pc' = [pc EXCEPT ![d] = "commit"] /\ ret' = [ret EXCEPT ![d] = ret[d]]
        /\ file' \in [Fd -> Paths \cup {Free}] /\ line' \in [Ttys -> Settings] /\ broken' \subseteq Ttys
    BY <1>0, <1>7, <2>1 DEF CloseOld, Step, DeviceTypeOK
  <2> QED
    BY <1>0, <2>2, TypeFrom
<1>8. ASSUME Commit(d) PROVE DeviceTypeOK' /\ After(d, next[d], NoSession, "idle")
  <2> DEFINE a == IF next[d] = NoSession THEN "closed" ELSE "opened"
  <2>1. /\ session' = [session EXCEPT ![d] = next[d]] /\ next' = [next EXCEPT ![d] = NoSession]
        /\ pc' = [pc EXCEPT ![d] = "idle"] /\ ret' = [ret EXCEPT ![d] = a]
        /\ file' \in [Fd -> Paths \cup {Free}] /\ line' \in [Ttys -> Settings] /\ broken' \subseteq Ttys
    BY <1>0, <1>8 DEF Commit, Return, Step, DeviceTypeOK
  <2> QED
    BY <1>0, <2>1, TypeFrom
<1>9. ASSUME Close(d) PROVE DeviceTypeOK' /\ After(d, session[d], next[d], HandOver(d))
  <2>1. HandOver(d) \in {"restore", "close"} => session[d].fd # NoFd
    BY DEF IsOpen
  <2>2. /\ session' = [session EXCEPT ![d] = session[d]] /\ next' = [next EXCEPT ![d] = next[d]]
        /\ pc' = [pc EXCEPT ![d] = HandOver(d)] /\ ret' = [ret EXCEPT ![d] = "none"]
        /\ file' \in [Fd -> Paths \cup {Free}] /\ line' \in [Ttys -> Settings] /\ broken' \subseteq Ttys
    BY <1>0, <1>9 DEF Close, Step, DeviceTypeOK
  <2> QED
    BY <1>0, <2>1, <2>2, TypeFrom
<1> QED
  BY <1>1, <1>2, <1>3, <1>4, <1>5, <1>6, <1>7, <1>8, <1>9

-----------------------------------------------------------------------------
(***************************************************************************)
(* The descriptor table.                                                   *)
(***************************************************************************)
FilesAgree == EveryFileHeld /\ OnItsPath /\ HeldOnce

(* The steps that open and close nothing. *)
LEMMA FilesKept ==
  ASSUME FilesInv, NEW d \in Devices, Others(d), file' = file,
         Live(d)' <=> Live(d),
         session'[d].fd = session[d].fd, session'[d].path = session[d].path,
         next'[d].fd = next[d].fd, next'[d].path = next[d].path
  PROVE  FilesAgree'
<1>1. \A e \in Devices :
        /\ Live(e)' <=> Live(e)
        /\ Fresh(e)' <=> Fresh(e)
        /\ session'[e].fd = session[e].fd /\ session'[e].path = session[e].path
        /\ next'[e].fd = next[e].fd /\ next'[e].path = next[e].path
  BY DEF Others, Live, Fresh
<1> QED
  BY <1>1 DEF FilesInv, FilesAgree, EveryFileHeld, OnItsPath, HeldOnce, Live, Fresh

(* open(2) returns a descriptor that nobody holds. *)
LEMMA FilesOpened ==
  ASSUME FilesInv, NEW d \in Devices, Others(d), ~Fresh(d),
         NEW f \in Fd, file[f] = Free, NEW p \in Paths,
         file' = [file EXCEPT ![f] = p], next'[d].fd = f, next'[d].path = p,
         Live(d)' <=> Live(d), session'[d] = session[d]
  PROVE  FilesAgree'
<1>1. /\ \A g \in Fd : file'[g] = IF g = f THEN p ELSE file[g]
      /\ p # Free /\ f # NoFd
  BY DeviceAssumption DEF FilesInv, DeviceTypeOK, NoFd, Fd
<1>2. \A e \in Devices :
        /\ Live(e)' <=> Live(e)
        /\ session'[e] = session[e]
        /\ e # d => next'[e] = next[e]
        /\ Live(e) => session[e].fd \in Fd /\ session[e].fd # f
        /\ Fresh(e) => next[e].fd \in Fd /\ next[e].fd # f
  <2>1. \A e \in Devices : /\ Live(e) => session[e].fd \in Fd /\ session[e].path # Free
                           /\ Fresh(e) => next[e].fd \in Fd /\ next[e].path # Free
    BY DeviceAssumption DEF FilesInv, DeviceTypeOK, Session, Live, Fresh, Shape, Sound, PathsOf, Paths
  <2> QED
    BY <2>1 DEF FilesInv, OnItsPath, Others, Live
<1>3. EveryFileHeld'
  <2> SUFFICES ASSUME NEW g \in Fd, file'[g] # Free
               PROVE  \E e \in Devices : (Live(e)' /\ session'[e].fd = g) \/ next'[e].fd = g
    BY DEF EveryFileHeld
  <2>1. CASE g = f
    BY <2>1
  <2>2. CASE g # f
    <3>1. PICK e \in Devices : (Live(e) /\ session[e].fd = g) \/ next[e].fd = g
      BY <1>1, <2>2 DEF FilesInv, EveryFileHeld
    <3>2. next[d].fd # g
      BY DEF Fresh, NoFd, Fd
    <3> QED
      BY <1>2, <3>1, <3>2
  <2> QED
    BY <2>1, <2>2
<1>4. OnItsPath'
  BY <1>1, <1>2 DEF FilesInv, OnItsPath, Live, Fresh
<1>5. HeldOnce'
  BY <1>1, <1>2 DEF FilesInv, HeldOnce, Live, Fresh
<1> QED
  BY <1>3, <1>4, <1>5 DEF FilesAgree

(* A failed open closes the descriptor of the call in progress. *)
LEMMA FilesGivenUp ==
  ASSUME FilesInv, NEW d \in Devices, Others(d), Fresh(d),
         CloseFd(next[d].fd), next'[d] = NoSession,
         Live(d)' <=> Live(d), session'[d] = session[d]
  PROVE  FilesAgree'
<1> DEFINE f == next[d].fd
<1>1. f \in Fd /\ \A g \in Fd : file'[g] = IF g = f THEN Free ELSE file[g]
  BY DEF FilesInv, DeviceTypeOK, CloseFd, Fresh, Session
<1>2. \A e \in Devices :
        /\ Live(e)' <=> Live(e)
        /\ session'[e] = session[e]
        /\ Fresh(e)' <=> (Fresh(e) /\ e # d)
        /\ e # d => next'[e] = next[e]
        /\ Live(e) => session[e].fd \in Fd /\ session[e].fd # f
        /\ Fresh(e) => next[e].fd \in Fd /\ (e # d => next[e].fd # f)
  <2>1. \A e \in Devices : /\ Live(e) => session[e].fd \in Fd
                           /\ Fresh(e) => next[e].fd \in Fd
    BY DEF FilesInv, DeviceTypeOK, Session, Live, Fresh
  <2> QED
    BY <2>1 DEF FilesInv, HeldOnce, Others, Live, Fresh, NoSession
<1>3. EveryFileHeld'
  BY <1>1, <1>2 DEF FilesInv, EveryFileHeld, Live, Fresh
<1>4. OnItsPath'
  BY <1>1, <1>2 DEF FilesInv, OnItsPath, Live, Fresh
<1>5. HeldOnce'
  BY <1>1, <1>2 DEF FilesInv, HeldOnce, Live, Fresh
<1> QED
  BY <1>3, <1>4, <1>5 DEF FilesAgree

(* close(2) of the session's descriptor. *)
LEMMA FilesClosed ==
  ASSUME FilesInv, NEW d \in Devices, Others(d), Live(d), ~Live(d)',
         CloseFd(session[d].fd), next'[d] = next[d]
  PROVE  FilesAgree'
<1> DEFINE f == session[d].fd
<1>1. f \in Fd /\ \A g \in Fd : file'[g] = IF g = f THEN Free ELSE file[g]
  BY DEF FilesInv, DeviceTypeOK, CloseFd, Live, Session
<1>2. \A e \in Devices :
        /\ Live(e)' <=> (Live(e) /\ e # d)
        /\ e # d => session'[e] = session[e]
        /\ next'[e] = next[e]
        /\ Live(e) => session[e].fd \in Fd /\ (e # d => session[e].fd # f)
        /\ Fresh(e) => next[e].fd \in Fd /\ next[e].fd # f
  <2>1. \A e \in Devices : /\ Live(e) => session[e].fd \in Fd
                           /\ Fresh(e) => next[e].fd \in Fd
    BY DEF FilesInv, DeviceTypeOK, Session, Live, Fresh
  <2> QED
    BY <2>1 DEF FilesInv, HeldOnce, Others, Live, Fresh
<1>3. EveryFileHeld'
  BY <1>1, <1>2 DEF FilesInv, EveryFileHeld, Live, Fresh
<1>4. OnItsPath'
  BY <1>1, <1>2 DEF FilesInv, OnItsPath, Live, Fresh
<1>5. HeldOnce'
  BY <1>1, <1>2 DEF FilesInv, HeldOnce, Live, Fresh
<1> QED
  BY <1>3, <1>4, <1>5 DEF FilesAgree

(* The device takes over what the call has opened. *)
LEMMA FilesTaken ==
  ASSUME FilesInv, NEW d \in Devices, Others(d), pc[d] = "commit", pc'[d] = "idle",
         session'[d] = next[d], next'[d] = NoSession, file' = file
  PROVE  FilesAgree'
<1>1. \A e \in Devices :
        /\ Live(e)' <=> IF e = d THEN Fresh(d) ELSE Live(e)
        /\ Fresh(e)' <=> (Fresh(e) /\ e # d)
        /\ e # d => session'[e] = session[e] /\ next'[e] = next[e]
  BY DEF Others, Live, Fresh, NoSession
<1>2. ~Live(d)
  BY DEF Live
<1>3. EveryFileHeld'
  <2> SUFFICES ASSUME NEW f \in Fd, file[f] # Free
               PROVE  \E e \in Devices : (Live(e)' /\ session'[e].fd = f) \/ next'[e].fd = f
    BY DEF EveryFileHeld
  <2>1. PICK e \in Devices : (Live(e) /\ session[e].fd = f) \/ next[e].fd = f
    BY DEF FilesInv, EveryFileHeld
  <2>2. f # NoFd
    BY DEF NoFd, Fd
  <2> QED
    BY <1>1, <1>2, <2>1, <2>2 DEF Fresh
<1>4. OnItsPath'
  BY <1>1, <1>2 DEF FilesInv, OnItsPath
<1>5. HeldOnce'
  BY <1>1, <1>2 DEF FilesInv, HeldOnce
<1> QED
  BY <1>3, <1>4, <1>5 DEF FilesAgree

LEMMA SoundAfter ==
  ASSUME FilesInv, NEW d \in Devices, Others(d),
         Sound(d, session'[d]), Sound(d, next'[d]),
         pc'[d] \in {"getattr", "setattr", "restore"} => d \in Uarts
  PROVE  \A e \in Devices : Shape(e)'
<1>1. \A e \in Devices : e # d => Shape(e)'
  BY DEF FilesInv, Shape, Others
<1>2. Shape(d)'
  BY DEF Shape
<1> QED
  BY <1>1, <1>2

LEMMA FilesStep == FilesInv /\ [Next]_vars => FilesInv'
<1> SUFFICES ASSUME FilesInv, [Next]_vars PROVE FilesInv'
  OBVIOUS
<1>1. CASE UNCHANGED vars
  BY <1>1 DEF vars, FilesInv, DeviceTypeOK, Shape, Sound, EveryFileHeld, OnItsPath, HeldOnce,
              Live, Fresh, IsOpen
<1>2. ASSUME NEW d \in Devices, DeviceStep(d) PROVE FilesInv'
  <2> USE DEF After
  <2>0. /\ DeviceTypeOK /\ Others(d) /\ Sound(d, session[d]) /\ Sound(d, next[d])
        /\ session[d] \in Session /\ next[d] \in Session /\ Sound(d, NoSession)
        /\ pc[d] = "idle" => next[d] = NoSession
        /\ pc[d] \in {"getattr", "setattr"} => Fresh(d) /\ d \in Uarts
        /\ pc[d] \in {"restore", "close"} => Live(d)
    BY <1>2, StepIsLocal DEF FilesInv, Shape, DeviceTypeOK, Live, Fresh, IsOpen, Sound, NoSession
  <2>1. CASE OpenFails(d)
    <3>1. DeviceTypeOK' /\ After(d, session[d], NoSession, "idle")
      BY <2>1, DeviceTypeStep
    <3>2. FilesAgree'
      BY <2>0, <2>1, <3>1, FilesKept DEF OpenFails, Live
    <3>3. \A e \in Devices : Shape(e)'
      BY <2>0, <3>1, SoundAfter
    <3> QED
      BY <3>1, <3>2, <3>3 DEF FilesInv, FilesAgree
  <2>2. ASSUME NEW p \in PathsOf(d), NEW b \in BaudsOf(d), OpenFile(d, p, b) PROVE FilesInv'
    <3>1. PICK f \in Fd :
            /\ file[f] = Free /\ file' = [file EXCEPT ![f] = p]
            /\ next' = [next EXCEPT ![d] = [fd |-> f, saved |-> AsFound, path |-> p, baud |-> b]]
      BY <2>2 DEF OpenFile, LowestFree
    <3>2. next'[d].fd = f /\ next'[d].path = p /\ next'[d].baud = b /\ f # NoFd /\ p \in Paths
      BY <2>0, <3>1 DEF DeviceTypeOK, Fd, NoFd, PathsOf, Paths
    <3>3. DeviceTypeOK' /\ session'[d] = session[d]
          /\ pc'[d] = IF d \in Uarts THEN "getattr" ELSE HandOver(d)
      BY <2>2, <3>2, DeviceTypeStep
    <3>4. ~Fresh(d) /\ (Live(d)' <=> Live(d))
      <4>1. pc[d] = "idle"
        BY <2>2 DEF OpenFile
      <4> QED
        BY <2>0, <3>3, <4>1, HandOverType DEF Fresh, Live, NoSession, IsOpen
    <3>5. FilesAgree'
      BY <2>0, <3>1, <3>2, <3>3, <3>4, FilesOpened
    <3>6. Sound(d, next'[d])
      BY <3>2 DEF Sound
    <3>7. \A e \in Devices : Shape(e)'
      BY <2>0, <3>3, <3>6, HandOverType, SoundAfter
    <3> QED
      BY <3>3, <3>5, <3>7 DEF FilesInv, FilesAgree
  <2>3. CASE GetAttr(d)
    <3>1. DeviceTypeOK' /\ After(d, session[d], WithSaved(next[d], line[next[d].path]), "setattr")
      BY <2>3, DeviceTypeStep
    <3>2. pc[d] = "getattr" /\ file' = file
      BY <2>3 DEF GetAttr
    <3>3. /\ next'[d].fd = next[d].fd /\ next'[d].path = next[d].path
          /\ next'[d].baud = next[d].baud
      BY <3>1 DEF WithSaved
    <3>4. FilesAgree'
      BY <2>0, <3>1, <3>2, <3>3, FilesKept DEF Live
    <3>5. Sound(d, next'[d])
      BY <2>0, <3>2, <3>3 DEF Sound, Fresh
    <3>6. \A e \in Devices : Shape(e)'
      BY <2>0, <3>1, <3>2, <3>5, SoundAfter
    <3> QED
      BY <3>1, <3>4, <3>6 DEF FilesInv, FilesAgree
  <2>4. CASE AttrFails(d)
    <3>1. DeviceTypeOK' /\ After(d, session[d], NoSession, "idle")
      BY <2>4, DeviceTypeStep
    <3>2. FilesAgree'
      BY <2>0, <2>4, <3>1, FilesGivenUp DEF AttrFails, Live
    <3>3. \A e \in Devices : Shape(e)'
      BY <2>0, <3>1, SoundAfter
    <3> QED
      BY <3>1, <3>2, <3>3 DEF FilesInv, FilesAgree
  <2>5. CASE SetAttr(d) \/ Close(d)
    <3>1. DeviceTypeOK' /\ After(d, session[d], next[d], HandOver(d))
      BY <2>5, DeviceTypeStep
    <3>2. file' = file /\ pc[d] # "commit"
      BY <2>5 DEF SetAttr, Close
    <3>3. FilesAgree'
      BY <2>0, <3>1, <3>2, HandOverType, FilesKept DEF Live, IsOpen
    <3>4. \A e \in Devices : Shape(e)'
      BY <2>0, <3>1, HandOverType, SoundAfter
    <3> QED
      BY <3>1, <3>3, <3>4 DEF FilesInv, FilesAgree
  <2>6. CASE Restore(d)
    <3>1. DeviceTypeOK' /\ After(d, session[d], next[d], "close")
      BY <2>6, DeviceTypeStep
    <3>2. FilesAgree'
      BY <2>0, <2>6, <3>1, FilesKept DEF Restore, Live
    <3>3. \A e \in Devices : Shape(e)'
      BY <2>0, <3>1, SoundAfter
    <3> QED
      BY <3>1, <3>2, <3>3 DEF FilesInv, FilesAgree
  <2>7. CASE CloseOld(d)
    <3>1. DeviceTypeOK' /\ After(d, session[d], next[d], "commit")
      BY <2>7, DeviceTypeStep
    <3>2. FilesAgree'
      BY <2>0, <2>7, <3>1, FilesClosed DEF CloseOld, Live
    <3>3. \A e \in Devices : Shape(e)'
      BY <2>0, <3>1, SoundAfter
    <3> QED
      BY <3>1, <3>2, <3>3 DEF FilesInv, FilesAgree
  <2>8. CASE Commit(d)
    <3>1. DeviceTypeOK' /\ After(d, next[d], NoSession, "idle")
      BY <2>8, DeviceTypeStep
    <3>2. FilesAgree'
      BY <2>0, <2>8, <3>1, FilesTaken DEF Commit
    <3>3. \A e \in Devices : Shape(e)'
      BY <2>0, <3>1, SoundAfter
    <3> QED
      BY <3>1, <3>2, <3>3 DEF FilesInv, FilesAgree
  <2> QED
    BY <1>2, <2>1, <2>2, <2>3, <2>4, <2>5, <2>6, <2>7, <2>8 DEF DeviceStep
<1> QED
  BY <1>1, <1>2, NextIsDeviceStep

LEMMA FilesInvHolds == Spec => []FilesInv
  BY FilesInit, FilesStep, PTL DEF Spec

(* The types of the facade's state hold in every behaviour, and each       *)
(* system call has what it is about.                                       *)
THEOREM DeviceTypeCorrect == Spec => []DeviceTypeOK
<1>1. FilesInv => DeviceTypeOK
  BY DEF FilesInv
<1> QED
  BY <1>1, FilesInvHolds, PTL

(* No descriptor is leaked, closed twice or shared, however many devices   *)
(* open, reopen, fail and close in whatever order.                         *)
THEOREM DescriptorsAreOwned == Spec => []DescriptorsOwned
<1>1. ASSUME FilesInv PROVE DescriptorsOwned
  <2>1. ASSUME NEW d \in Devices, NEW r \in Owned(d)
        PROVE  /\ r.fd \in Fd /\ r.path # Free /\ file[r.fd] = r.path
               /\ (Live(d) /\ r = session[d]) \/ (Fresh(d) /\ r = next[d])
    <3>1. /\ session[d] \in Session /\ next[d] \in Session
          /\ Sound(d, session[d]) /\ Sound(d, next[d])
      BY <1>1 DEF FilesInv, DeviceTypeOK, Shape
    <3>2. (Live(d) /\ r = session[d]) \/ (Fresh(d) /\ r = next[d])
      BY <2>1 DEF Owned, Live, Fresh
    <3>3. r.fd \in Fd /\ r.path # Free
      BY <3>1, <3>2, DeviceAssumption DEF Session, Live, Fresh, Sound, PathsOf, Paths
    <3> QED
      BY <1>1, <3>2, <3>3 DEF FilesInv, OnItsPath
  <2>2. ASSUME NEW f \in Fd, file[f] # Free
        PROVE  \E d \in Devices : \E r \in Owned(d) : r.fd = f
    <3>1. PICK d \in Devices : (Live(d) /\ session[d].fd = f) \/ next[d].fd = f
      BY <1>1, <2>2 DEF FilesInv, EveryFileHeld
    <3>2. f # NoFd
      BY DEF NoFd, Fd
    <3>3. Live(d) => session[d] \in Owned(d)
      BY DEF Owned, Live
    <3>4. next[d].fd = f => next[d] \in Owned(d)
      BY <3>2 DEF Owned
    <3> QED
      BY <3>1, <3>3, <3>4
  <2>3. ASSUME NEW d \in Devices, NEW e \in Devices, NEW r \in Owned(d), NEW s \in Owned(e),
               r.fd = s.fd
        PROVE  d = e /\ r = s
    <3>1. (Live(d) /\ r = session[d]) \/ (Fresh(d) /\ r = next[d])
      BY <2>1
    <3>2. (Live(e) /\ s = session[e]) \/ (Fresh(e) /\ s = next[e])
      BY <2>1
    <3> QED
      BY <1>1, <2>3, <3>1, <3>2 DEF FilesInv, HeldOnce
  <2> QED
    BY <2>1, <2>2, <2>3 DEF DescriptorsOwned
<1> QED
  BY <1>1, FilesInvHolds, PTL

(* Only a call of the device's own that succeeds replaces its session.     *)
THEOREM FailedOpensKeepSessions == Spec => FailedOpenKeepsSession
<1> DEFINE Keeps == \A d \in Devices :
             session'[d] # session[d] => pc[d] # "idle" /\ ret'[d] \in {"opened", "closed"}
<1>1. ASSUME FilesInv, [Next]_vars PROVE [Keeps]_vars
  <2>1. ASSUME NEW d \in Devices, DeviceStep(d) PROVE Keeps
    <3>1. DeviceTypeOK
      BY <1>1 DEF FilesInv
    <3>2. CASE Commit(d)
      <4>1. ret'[d] \in {"opened", "closed"} /\ pc[d] = "commit"
        BY <3>1, <3>2 DEF Commit, Return, DeviceTypeOK
      <4>2. \A e \in Devices : e # d => session'[e] = session[e]
        BY <3>1, <3>2 DEF Commit, DeviceTypeOK
      <4> QED
        BY <4>1, <4>2
    <3>3. CASE ~Commit(d)
      BY <2>1, <3>3 DEF DeviceStep, OpenFails, OpenFile, GetAttr, SetAttr, AttrFails, Restore,
                        CloseOld, Close
    <3> QED
      BY <3>2, <3>3
  <2> QED
    BY <1>1, <2>1, NextIsDeviceStep
<1> QED
  BY <1>1, FilesInvHolds, PTL DEF Spec, FailedOpenKeepsSession

-----------------------------------------------------------------------------
(***************************************************************************)
(* The serial lines, when no device is reopened on the line it has open.   *)
(***************************************************************************)
Names(d) == {session[d].path, next[d].path} \ {Free}

(* No two devices name one line; a reopen names another one. *)
LinesApart ==
  /\ \A d, e \in Uarts : d # e => Names(d) \cap Names(e) = {}
  /\ \A d \in Uarts : Fresh(d) => session[d].path # next[d].path

(* A line is as its device asked once the settings are made and until they *)
(* are put back; before and after, it is as it was found.                  *)
LineFollows(d) ==
  /\ IsOpen(d) /\ pc[d] \notin {"close", "commit"} => line[session[d].path] = session[d].baud
  /\ Fresh(d) /\ pc[d] \notin {"getattr", "setattr"} => line[next[d].path] = next[d].baud
  /\ IsOpen(d) /\ session[d].path \notin broken =>
       /\ session[d].saved = AsFound
       /\ pc[d] \in {"close", "commit"} => line[session[d].path] = AsFound
  /\ Fresh(d) /\ next[d].path \notin broken =>
       /\ next[d].saved = AsFound
       /\ pc[d] \in {"getattr", "setattr"} => line[next[d].path] = AsFound

LinesFollow == LinesApart /\ (\A d \in Uarts : LineFollows(d)) /\ SettingsRestored

LineInv == ~SamePath => LinesFollow

LEMMA LineInit == Init => LineInv
<1> SUFFICES ASSUME Init PROVE LinesFollow
  BY DEF LineInv
<1>1. \A d \in Uarts : Names(d) = {} /\ ~Fresh(d) /\ ~IsOpen(d)
  BY DEF Init, Names, Fresh, IsOpen, NoSession, NoFd, Devices
<1>2. SettingsRestored
  BY DEF Init, SettingsRestored
<1> QED
  BY <1>1, <1>2 DEF LinesFollow, LinesApart, LineFollows

(* A serial device's step changes at most the settings of lines it names   *)
(* before and after: the other devices' lines follow them still.           *)
LEMMA LinesOfOthers ==
  ASSUME FilesInv, LinesFollow, NEW d \in Uarts, Others(d),
         \A p \in Ttys \ Names(d) : line'[p] = line[p],
         broken \subseteq broken'
  PROVE  \A e \in Uarts : e # d => LineFollows(e)'
<1> SUFFICES ASSUME NEW e \in Uarts, e # d PROVE LineFollows(e)'
  OBVIOUS
<1>1. session'[e] = session[e] /\ next'[e] = next[e] /\ pc'[e] = pc[e] /\ e \in Devices
  BY DEF Others, Devices
<1>2. /\ IsOpen(e) => session[e].path \in Names(e) /\ session[e].path \in Ttys
      /\ Fresh(e) => next[e].path \in Names(e) /\ next[e].path \in Ttys
  BY <1>1, DeviceAssumption
     DEF FilesInv, Shape, Sound, PathsOf, Names, Paths, IsOpen, Fresh
<1>3. /\ IsOpen(e) => line'[session[e].path] = line[session[e].path]
      /\ Fresh(e) => line'[next[e].path] = line[next[e].path]
  BY <1>2 DEF LinesFollow, LinesApart
<1> QED
  BY <1>1, <1>3 DEF LinesFollow, LineFollows, IsOpen, Fresh

(* The lines stay apart when the device names no new one. *)
LEMMA NoNewName ==
  ASSUME LinesFollow, NEW d \in Uarts, Others(d), Names(d)' \subseteq Names(d),
         Fresh(d)' => session'[d].path # next'[d].path
  PROVE  LinesApart'
<1>1. \A e \in Uarts : e # d => Names(e)' = Names(e) /\ (Fresh(e)' <=> Fresh(e))
                               /\ session'[e] = session[e] /\ next'[e] = next[e]
  BY DEF Others, Names, Fresh, Devices
<1> QED
  BY <1>1 DEF LinesFollow, LinesApart

(* A line that loses its last name is as it was found. *)
LEMMA LastNameGone ==
  ASSUME FilesInv, LinesFollow, NEW d \in Uarts, Others(d),
         \A p \in Ttys \ Names(d) : line'[p] = line[p],
         broken \subseteq broken',
         \A p \in Ttys \ broken' : p \in Names(d) \ Names(d)' => line'[p] = AsFound
  PROVE  SettingsRestored'
<1> SUFFICES ASSUME NEW p \in Ttys \ broken',
                    \A e \in Uarts : p \notin {session'[e].path, next'[e].path}
             PROVE  line'[p] = AsFound
  BY DEF SettingsRestored
<1>1. p # Free
  BY DeviceAssumption DEF Paths
<1>2. CASE p \in Names(d)
  <2>1. p \notin Names(d)'
    BY DEF Names
  <2> QED
    BY <1>2, <2>1
<1>3. CASE p \notin Names(d)
  <2>1. \A e \in Uarts : p \notin {session[e].path, next[e].path}
    BY <1>1, <1>3 DEF Others, Names, Devices
  <2> QED
    BY <1>3, <2>1 DEF LinesFollow, SettingsRestored
<1> QED
  BY <1>2, <1>3

(* The three lemmas together, for a serial device's step. *)
LEMMA LinesFrom ==
  ASSUME FilesInv, LinesFollow, NEW d \in Uarts, Others(d),
         \A p \in Ttys \ Names(d) : line'[p] = line[p],
         broken \subseteq broken',
         \A p \in Ttys \ broken' : p \in Names(d) \ Names(d)' => line'[p] = AsFound,
         LinesApart', LineFollows(d)'
  PROVE  LinesFollow'
<1>1. \A e \in Uarts : LineFollows(e)'
  BY LinesOfOthers
<1>2. SettingsRestored'
  BY LastNameGone
<1> QED
  BY <1>1, <1>2 DEF LinesFollow

(* An I2C device's step touches no line. *)
LEMMA BusStep ==
  ASSUME FilesInv, LinesFollow, NEW d \in I2cs, Others(d), UNCHANGED <<line, broken>>
  PROVE  LinesFollow'
<1>1. \A e \in Uarts : e \in Devices /\ e # d
  BY DeviceAssumption DEF Devices
<1>2. \A e \in Uarts : session'[e] = session[e] /\ next'[e] = next[e] /\ pc'[e] = pc[e]
  BY <1>1 DEF Others
<1> QED
  <2>1. LinesApart'
    BY <1>2 DEF LinesFollow, LinesApart, Names, Fresh
  <2>2. \A e \in Uarts : LineFollows(e)'
    BY <1>2 DEF LinesFollow, LineFollows, Fresh, IsOpen
  <2>3. SettingsRestored'
    BY <1>2 DEF LinesFollow, SettingsRestored
  <2> QED
    BY <2>1, <2>2, <2>3 DEF LinesFollow

LEMMA SerialStep ==
  ASSUME FilesInv, ~SamePath, LinesFollow, NEW d \in Uarts, DeviceStep(d)
  PROVE  LinesFollow'
<1> USE DeviceAssumption DEF After
<1>0. /\ d \in Devices /\ DeviceTypeOK /\ Others(d) /\ LineFollows(d)
      /\ session[d] \in Session /\ next[d] \in Session
      /\ Sound(d, session[d]) /\ Sound(d, next[d])
      /\ pc[d] = "idle" => next[d] = NoSession
      /\ pc[d] \in {"getattr", "setattr"} => Fresh(d)
      /\ pc[d] \in {"restore", "close"} => IsOpen(d)
      /\ Fresh(d) => /\ session[d].path # next[d].path
                     /\ file[next[d].fd] = next[d].path
                     /\ next[d].path \in Ttys /\ next[d].path \in Names(d)
      /\ IsOpen(d) => session[d].path \in Ttys /\ session[d].path \in Names(d)
      /\ Live(d) => file[session[d].fd] = session[d].path
  <2>1. d \in Devices /\ DeviceTypeOK /\ LineFollows(d) /\ Sound(d, session[d]) /\ Sound(d, next[d])
    BY DEF Devices, FilesInv, LinesFollow, Shape
  <2>2. Others(d)
    BY <2>1, StepIsLocal
  <2>3. /\ pc[d] = "idle" => next[d] = NoSession
        /\ pc[d] \in {"getattr", "setattr"} => Fresh(d)
        /\ pc[d] \in {"restore", "close"} => IsOpen(d)
        /\ session[d] \in Session /\ next[d] \in Session
    BY <2>1 DEF DeviceTypeOK, Fresh
  <2>4. /\ Fresh(d) => /\ session[d].path # next[d].path
                       /\ file[next[d].fd] = next[d].path
                       /\ next[d].path \in Ttys /\ next[d].path \in Names(d)
        /\ IsOpen(d) => session[d].path \in Ttys /\ session[d].path \in Names(d)
        /\ Live(d) => file[session[d].fd] = session[d].path
    BY <2>1 DEF LinesFollow, LinesApart, Sound, PathsOf, Names, Paths, Fresh, IsOpen, Live,
                FilesInv, OnItsPath
  <2> QED
    BY <2>1, <2>2, <2>3, <2>4
<1>1. CASE OpenFails(d)
  <2>1. After(d, session[d], NoSession, "idle") /\ next[d] = NoSession /\ pc[d] = "idle"
    BY <1>0, <1>1, DeviceTypeStep DEF OpenFails
  <2>2. UNCHANGED <<line, broken>>
    BY <1>1 DEF OpenFails
  <2>3. LineFollows(d)' /\ Names(d)' = Names(d) /\ ~Fresh(d)'
    BY <1>0, <2>1, <2>2 DEF LineFollows, Names, Fresh, IsOpen, NoSession
  <2> QED
    BY <1>0, <2>2, <2>3, LinesFrom, NoNewName
<1>2. ASSUME NEW p \in PathsOf(d), NEW b \in BaudsOf(d), OpenFile(d, p, b) PROVE LinesFollow'
  <2>1. PICK f \in Fd : next' = [next EXCEPT ![d] = [fd |-> f, saved |-> AsFound, path |-> p, baud |-> b]]
    BY <1>2 DEF OpenFile
  <2>2. next'[d] = [fd |-> f, saved |-> AsFound, path |-> p, baud |-> b] /\ f # NoFd
    BY <1>0, <2>1 DEF DeviceTypeOK, NoFd, Fd
  <2>3. session'[d] = session[d] /\ pc'[d] = "getattr" /\ pc[d] = "idle" /\ next[d] = NoSession
    BY <1>0, <1>2 DEF OpenFile, Step, DeviceTypeOK
  <2>4. UNCHANGED <<line, broken>>
    BY <1>2 DEF OpenFile
  <2>5. p \in Ttys /\ p # Free
    BY DEF PathsOf, Paths
  <2>6. /\ session[d].path # p
        /\ \A e \in Uarts : e # d => p \notin {session[e].path, next[e].path}
    BY <1>0, <1>2 DEF OpenFile, MayOpen
  <2>7. p \notin broken => line[p] = AsFound
    <3>1. next[d].path # p
      BY <2>3, <2>5 DEF NoSession
    <3> QED
      BY <2>5, <2>6, <3>1 DEF LinesFollow, SettingsRestored
  <2>8. LineFollows(d)'
    BY <1>0, <2>2, <2>3, <2>4, <2>7 DEF LineFollows, Fresh, IsOpen
  <2>9. Names(d)' = Names(d) \cup {p}
    BY <2>2, <2>3, <2>5 DEF Names, NoSession
  <2>10. LinesApart'
    <3>1. \A e \in Uarts : e # d =>
            /\ Names(e)' = Names(e) /\ p \notin Names(e) /\ (Fresh(e)' <=> Fresh(e))
            /\ session'[e] = session[e] /\ next'[e] = next[e]
      BY <1>0, <2>6 DEF Others, Names, Fresh, Devices
    <3>2. session'[d].path # next'[d].path
      BY <2>2, <2>3, <2>6
    <3> QED
      BY <2>9, <3>1, <3>2 DEF LinesFollow, LinesApart
  <2> QED
    BY <1>0, <2>4, <2>8, <2>9, <2>10, LinesFrom
<1>3. CASE GetAttr(d)
  <2>1. After(d, session[d], WithSaved(next[d], line[next[d].path]), "setattr")
    BY <1>0, <1>3, DeviceTypeStep
  <2>2. pc[d] = "getattr" /\ UNCHANGED <<line, broken>>
    BY <1>3 DEF GetAttr
  <2>3. /\ next'[d].fd = next[d].fd /\ next'[d].path = next[d].path
        /\ next'[d].baud = next[d].baud /\ next'[d].saved = line[next[d].path]
    BY <2>1 DEF WithSaved
  <2>4. LineFollows(d)' /\ Names(d)' = Names(d)
    BY <1>0, <2>1, <2>2, <2>3 DEF LineFollows, Names, Fresh, IsOpen
  <2>5. session'[d].path # next'[d].path
    BY <1>0, <2>1, <2>2, <2>3
  <2>6. LinesApart'
    BY <1>0, <2>4, <2>5, NoNewName
  <2> QED
    BY <1>0, <2>2, <2>4, <2>6, LinesFrom
<1>4. CASE AttrFails(d)
  <2>1. After(d, session[d], NoSession, "idle")
    BY <1>0, <1>4, DeviceTypeStep
  <2>2. pc[d] \in {"getattr", "setattr"} /\ UNCHANGED <<line, broken>>
    BY <1>4 DEF AttrFails
  <2>3. /\ LineFollows(d)' /\ Names(d)' \subseteq Names(d) /\ ~Fresh(d)'
        /\ \A p \in Names(d) \ Names(d)' : p = next[d].path
    BY <1>0, <2>1, <2>2 DEF LineFollows, Names, Fresh, IsOpen, NoSession
  <2>4. LinesApart'
    BY <1>0, <2>3, NoNewName
  <2>5. \A p \in Ttys \ broken' : p \in Names(d) \ Names(d)' => line'[p] = AsFound
    BY <1>0, <2>2, <2>3 DEF LineFollows
  <2> QED
    BY <1>0, <2>2, <2>3, <2>4, <2>5, LinesFrom
<1>5. CASE SetAttr(d)
  <2>1. After(d, session[d], next[d], HandOver(d))
    BY <1>0, <1>5, DeviceTypeStep
  <2>2. /\ pc[d] = "setattr" /\ UNCHANGED broken
        /\ line' = [line EXCEPT ![next[d].path] = next[d].baud]
    BY <1>0, <1>5 DEF SetAttr
  <2>3. \A p \in Ttys : line'[p] = IF p = next[d].path THEN next[d].baud ELSE line[p]
    BY <1>0, <2>2 DEF DeviceTypeOK
  <2>4. HandOver(d) = IF IsOpen(d) THEN "restore" ELSE "commit"
    BY DEF HandOver
  <2>5. LineFollows(d)' /\ Names(d)' = Names(d)
    BY <1>0, <2>1, <2>2, <2>3, <2>4 DEF LineFollows, Names, Fresh, IsOpen
  <2>6. LinesApart'
    BY <1>0, <2>1, <2>2, <2>5, NoNewName
  <2> QED
    BY <1>0, <2>2, <2>3, <2>5, <2>6, LinesFrom
<1>6. CASE Restore(d)
  <2>1. After(d, session[d], next[d], "close")
    BY <1>0, <1>6, DeviceTypeStep
  <2> DEFINE q == session[d].path
  <2>2. /\ pc[d] = "restore" /\ IsOpen(d) /\ q \in Ttys
        /\ \/ line' = [line EXCEPT ![q] = session[d].saved] /\ UNCHANGED broken
           \/ broken' = broken \cup {q} /\ UNCHANGED line
    BY <1>0, <1>6 DEF Restore, Live, IsOpen
  <2>3. /\ \A p \in Ttys : p # q => line'[p] = line[p]
        /\ broken \subseteq broken'
        /\ q \notin broken' => line'[q] = AsFound
    BY <1>0, <2>2 DEF DeviceTypeOK, LineFollows
  <2>4. LineFollows(d)' /\ Names(d)' = Names(d)
    BY <1>0, <2>1, <2>2, <2>3 DEF LineFollows, Names, Fresh, IsOpen
  <2>5. LinesApart'
    BY <1>0, <2>1, <2>4, NoNewName DEF Fresh
  <2> QED
    BY <1>0, <2>2, <2>3, <2>4, <2>5, LinesFrom
<1>7. CASE CloseOld(d) \/ Close(d)
  <2>1. \E where \in Places : After(d, session[d], next[d], where)
    BY <1>0, <1>7, DeviceTypeStep, HandOverType DEF Places
  <2>2. UNCHANGED <<line, broken>>
    BY <1>7 DEF CloseOld, Close
  <2>3. \/ pc[d] = "close" /\ pc'[d] = "commit"
        \/ pc[d] = "idle" /\ pc'[d] = IF IsOpen(d) THEN "restore" ELSE "commit"
    BY <1>0, <1>7 DEF CloseOld, Close, Step, HandOver, DeviceTypeOK
  <2>4. LineFollows(d)' /\ Names(d)' = Names(d)
    BY <1>0, <2>1, <2>2, <2>3 DEF LineFollows, Names, Fresh, IsOpen, NoSession
  <2>5. LinesApart'
    BY <1>0, <2>1, <2>4, NoNewName DEF Fresh
  <2> QED
    BY <1>0, <2>2, <2>4, <2>5, LinesFrom
<1>8. CASE Commit(d)
  <2>1. After(d, next[d], NoSession, "idle") /\ pc[d] = "commit" /\ UNCHANGED <<line, broken>>
    BY <1>0, <1>8, DeviceTypeStep DEF Commit
  <2>2. LineFollows(d)'
    BY <1>0, <2>1 DEF LineFollows, Fresh, IsOpen, NoSession
  <2>3. /\ Names(d)' \subseteq Names(d) /\ ~Fresh(d)'
        /\ \A p \in Names(d) \ Names(d)' : p = session[d].path /\ IsOpen(d)
    BY <1>0, <2>1 DEF Names, Fresh, NoSession, IsOpen, Sound
  <2>4. LinesApart'
    BY <1>0, <2>3, NoNewName
  <2>5. \A p \in Ttys \ broken' : p \in Names(d) \ Names(d)' => line'[p] = AsFound
    BY <1>0, <2>1, <2>3 DEF LineFollows
  <2> QED
    BY <1>0, <2>1, <2>2, <2>3, <2>4, <2>5, LinesFrom
<1> QED
  BY <1>1, <1>2, <1>3, <1>4, <1>5, <1>6, <1>7, <1>8 DEF DeviceStep

LEMMA LineStep == FilesInv /\ LineInv /\ [Next]_vars => LineInv'
<1> SUFFICES ASSUME FilesInv, LinesFollow, ~SamePath, [Next]_vars PROVE LinesFollow'
  BY DEF LineInv
<1>1. CASE UNCHANGED vars
  <2>1. LinesApart'
    BY <1>1 DEF vars, LinesFollow, LinesApart, Names, Fresh
  <2>2. \A d \in Uarts : LineFollows(d)'
    BY <1>1 DEF vars, LinesFollow, LineFollows, Fresh, IsOpen
  <2>3. SettingsRestored'
    BY <1>1 DEF vars, LinesFollow, SettingsRestored
  <2> QED
    BY <2>1, <2>2, <2>3 DEF LinesFollow
<1>2. ASSUME NEW d \in Devices, DeviceStep(d) PROVE LinesFollow'
  <2>1. Others(d)
    BY <1>2, StepIsLocal DEF FilesInv
  <2>2. CASE d \in Uarts
    BY <1>2, <2>2, SerialStep
  <2>3. CASE d \in I2cs
    <3>1. pc[d] \notin {"getattr", "setattr", "restore"}
      BY <1>2, <2>3, DeviceAssumption DEF FilesInv, Shape
    <3>2. UNCHANGED <<line, broken>>
      BY <1>2, <3>1 DEF DeviceStep, OpenFails, OpenFile, GetAttr, SetAttr, AttrFails, Restore,
                        CloseOld, Commit, Close
    <3> QED
      BY <2>1, <2>3, <3>2, BusStep
  <2> QED
    BY <2>2, <2>3 DEF Devices
<1> QED
  BY <1>1, <1>2, NextIsDeviceStep

LEMMA LineInvHolds == Spec => []LineInv
  BY FilesInvHolds, LineInit, LineStep, PTL DEF Spec

(* When devices are never reopened on the line they have open, an open     *)
(* serial device's line is configured as it was asked to.                  *)
THEOREM LinesConfigured == Spec => [](~SamePath => ConfiguredAsAsked)
<1>1. LineInv => (~SamePath => ConfiguredAsAsked)
  BY DEF LineInv, LinesFollow, LineFollows, ConfiguredAsAsked
<1> QED
  BY <1>1, LineInvHolds, PTL

(* Nor does a line keep another setting once no device uses it, but where  *)
(* putting it back failed.                                                 *)
THEOREM LinesRestored == Spec => [](~SamePath => SettingsRestored)
<1>1. LineInv => (~SamePath => SettingsRestored)
  BY DEF LineInv, LinesFollow
<1> QED
  BY <1>1, LineInvHolds, PTL
=============================================================================
