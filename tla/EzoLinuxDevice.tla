---------------------------- MODULE EzoLinuxDevice ----------------------------
(***************************************************************************)
(* The Linux device facade (platform/linux/ezo_linux_device.c) over the    *)
(* serial adapter's open and close (ezo_uart_posix_serial.c): device       *)
(* objects that own a descriptor each, opened, reopened and closed by      *)
(* threads that share the process's descriptor table and the terminals.    *)
(*                                                                         *)
(* One step is one system call, so that the calls of different devices     *)
(* interleave; any of them may fail.                                       *)
(***************************************************************************)
EXTENDS Integers, FiniteSets

CONSTANTS
  Uarts, I2cs,     \* device objects of the two kinds
  Ttys, Buses,     \* paths of serial lines and of I2C buses
  Bauds,           \* the baud rates ezo_linux_uart_map_baud_rate knows
  MaxFds,          \* bound: descriptors a process may hold
  SamePath         \* a device may be reopened on the path it has open

CONSTANTS AsFound, Free   \* settings nobody has changed; an unused descriptor

Devices == Uarts \cup I2cs
Paths == Ttys \cup Buses
Settings == Bauds \cup {AsFound}
Fd == 0 .. MaxFds - 1
NoFd == -1

ASSUME DeviceAssumption ==
  /\ Uarts \cap I2cs = {} /\ Ttys \cap Buses = {}
  /\ AsFound \notin Bauds /\ Free \notin Paths
  /\ MaxFds \in Nat /\ SamePath \in BOOLEAN

VARIABLES
  file,       \* the process's descriptor table
  line,       \* the terminal settings of each serial line
  session,    \* what each device object holds
  next,       \* next_serial or next_context of the call in progress
  pc,         \* the system call the device's thread makes next, or "idle"
  ret,        \* how the device's latest call ended, "none" during a call
  broken      \* history: lines whose settings a failed tcsetattr left changed

vars == <<file, line, session, next, pc, ret, broken>>

(* fd and saved_termios, and for the properties what the caller asked for. *)
Session == [fd : Fd \cup {NoFd}, saved : Settings,
            path : Paths \cup {Free}, baud : Settings]

NoSession == [fd |-> NoFd, saved |-> AsFound, path |-> Free, baud |-> AsFound]

Init ==
  /\ file = [f \in Fd |-> Free]
  /\ line = [p \in Ttys |-> AsFound]
  /\ session = [d \in Devices |-> NoSession]
  /\ next = [d \in Devices |-> NoSession]
  /\ pc = [d \in Devices |-> "idle"]
  /\ ret = [d \in Devices |-> "none"]
  /\ broken = {}

IsOpen(d) == session[d].fd # NoFd

PathsOf(d) == IF d \in Uarts THEN Ttys ELSE Buses
BaudsOf(d) == IF d \in Uarts THEN Bauds ELSE {AsFound}

(* What the callers keep to: two devices never share a serial line.        *)
MayOpen(d, p) ==
  /\ \A e \in Uarts \ {d} : p \notin {session[e].path, next[e].path}
  /\ SamePath \/ d \in I2cs \/ session[d].path # p

LowestFree(f) == file[f] = Free /\ \A g \in Fd : file[g] = Free => f <= g

Step(d, where) == pc' = [pc EXCEPT ![d] = where]

Return(d, r) ==
  /\ Step(d, "idle")
  /\ ret' = [ret EXCEPT ![d] = r]
  /\ next' = [next EXCEPT ![d] = NoSession]

CloseFd(f) == file' = [file EXCEPT ![f] = Free]

(* Mutant: the old session is torn down whether or not there is one. *)
HandOverAlways(d) == IF d \in Uarts THEN "restore" ELSE "close"

(* The first system call after the new descriptor is ready: the old serial *)
(* line is put back, the old descriptor closed, or neither was open.       *)
HandOver(d) ==
  IF ~IsOpen(d) THEN "commit" ELSE IF d \in Uarts THEN "restore" ELSE "close"

-----------------------------------------------------------------------------
(* Invalid arguments, or open(2) fails: the device is left as it was.      *)
OpenFails(d) ==
  /\ pc[d] = "idle"
  /\ Return(d, "failed")
  /\ UNCHANGED <<file, line, session, broken>>

OpenFile(d, p, b) ==
  /\ pc[d] = "idle" /\ MayOpen(d, p)
  /\ \E f \in Fd :
       /\ LowestFree(f)
       /\ file' = [file EXCEPT ![f] = p]
       /\ next' = [next EXCEPT ![d] = [fd |-> f, saved |-> AsFound, path |-> p, baud |-> b]]
  /\ Step(d, IF d \in Uarts THEN "getattr" ELSE HandOver(d))
  /\ ret' = [ret EXCEPT ![d] = "none"]
  /\ UNCHANGED <<line, session, broken>>

GetAttr(d) ==
  /\ pc[d] = "getattr"
  /\ next' = [next EXCEPT ![d].saved = line[file[next[d].fd]]]
  /\ Step(d, "setattr")
  /\ UNCHANGED <<file, line, session, ret, broken>>

(* Mutants: the failed open resets the device; it keeps its descriptor.    *)
AttrFailsReset(d) ==
  /\ pc[d] \in {"getattr", "setattr"}
  /\ CloseFd(next[d].fd)
  /\ session' = [session EXCEPT ![d] = NoSession]
  /\ Return(d, "failed")
  /\ UNCHANGED <<line, broken>>

AttrFailsLeak(d) ==
  /\ pc[d] \in {"getattr", "setattr"}
  /\ Return(d, "failed")
  /\ UNCHANGED <<file, line, session, broken>>

(* tcgetattr or tcsetattr fails: the new descriptor is closed again.       *)
AttrFails(d) ==
  /\ pc[d] \in {"getattr", "setattr"}
  /\ CloseFd(next[d].fd)
  /\ Return(d, "failed")
  /\ UNCHANGED <<line, session, broken>>

SetAttr(d) ==
  /\ pc[d] = "setattr"
  /\ line' = [line EXCEPT ![file[next[d].fd]] = next[d].baud]
  /\ Step(d, HandOver(d))
  /\ UNCHANGED <<file, session, next, ret, broken>>

(* Mutants: the old settings go to the new line; they are not put back.    *)
RestoreOntoNew(d) ==
  /\ pc[d] = "restore"
  /\ LET p == file[(IF next[d].fd = NoFd THEN session[d] ELSE next[d]).fd] IN
       line' = [line EXCEPT ![p] = session[d].saved]
  /\ Step(d, "close")
  /\ UNCHANGED <<file, session, next, ret, broken>>

RestoreNothing(d) ==
  /\ pc[d] = "restore"
  /\ Step(d, "close")
  /\ UNCHANGED <<file, line, session, next, ret, broken>>

(* ezo_uart_posix_serial_close ignores what tcsetattr returns.             *)
Restore(d) ==
  /\ pc[d] = "restore"
  /\ LET p == file[session[d].fd] IN
     \/ line' = [line EXCEPT ![p] = session[d].saved] /\ UNCHANGED broken
     \/ broken' = broken \cup {p} /\ UNCHANGED line
  /\ Step(d, "close")
  /\ UNCHANGED <<file, session, next, ret>>

CloseOld(d) ==
  /\ pc[d] = "close"
  /\ CloseFd(session[d].fd)
  /\ Step(d, "commit")
  /\ UNCHANGED <<line, session, next, ret, broken>>

(* The device object is reset and takes over what the call has opened.     *)
Commit(d) ==
  /\ pc[d] = "commit"
  /\ session' = [session EXCEPT ![d] = next[d]]
  /\ Return(d, IF next[d] = NoSession THEN "closed" ELSE "opened")
  /\ UNCHANGED <<file, line, broken>>

Close(d) ==
  /\ pc[d] = "idle"
  /\ Step(d, HandOver(d))
  /\ ret' = [ret EXCEPT ![d] = "none"]
  /\ UNCHANGED <<file, line, session, next, broken>>

Next ==
  \E d \in Devices :
    \/ OpenFails(d)
    \/ \E p \in PathsOf(d) : \E b \in BaudsOf(d) : OpenFile(d, p, b)
    \/ GetAttr(d) \/ SetAttr(d) \/ AttrFails(d)
    \/ Restore(d) \/ CloseOld(d) \/ Commit(d) \/ Close(d)

Spec == Init /\ [][Next]_vars
=============================================================================
