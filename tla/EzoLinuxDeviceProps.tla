------------------------- MODULE EzoLinuxDeviceProps -------------------------
(***************************************************************************)
(* What the Linux device facade guarantees to the programs above it.       *)
(***************************************************************************)
EXTENDS EzoLinuxDevice

(* Types of the descriptor table, the sessions and the calls in progress,  *)
(* and what each system call needs: one to open, or one to give up.        *)
DeviceTypeOK ==
  /\ file \in [Fd -> Paths \cup {Free}]
  /\ line \in [Ttys -> Settings]
  /\ session \in [Devices -> Session]
  /\ next \in [Devices -> Session]
  /\ pc \in [Devices -> {"idle", "getattr", "setattr", "restore", "close", "commit"}]
  /\ ret \in [Devices -> {"none", "failed", "opened", "closed"}]
  /\ broken \subseteq Ttys
  /\ \A d \in Devices :
       /\ pc[d] = "idle" => next[d] = NoSession
       /\ pc[d] \in {"getattr", "setattr"} => next[d].fd # NoFd
       /\ pc[d] \in {"restore", "close"} => IsOpen(d)

(* The session's descriptor number is stale between close(2) and the reset *)
(* of the device object; everything else a device or its call names is its *)
(* own.                                                                    *)
Owned(d) ==
  {r \in ((IF pc[d] = "commit" THEN {} ELSE {session[d]}) \cup {next[d]}) : r.fd # NoFd}

(* The descriptor table and the devices agree: a descriptor is open exactly *)
(* when one device owns it, and it is open on the path that device was     *)
(* asked for.  No failed open, reopen or close, interleaved with those of  *)
(* other devices that get the same numbers again, leaks a descriptor,      *)
(* closes one twice or leaves a device on another's file.                  *)
DescriptorsOwned ==
  /\ \A f \in Fd : file[f] # Free <=> \E d \in Devices : \E r \in Owned(d) : r.fd = f
  /\ \A d \in Devices : \A r \in Owned(d) : file[r.fd] = r.path
  /\ \A d, e \in Devices : \A r \in Owned(d) : \A s \in Owned(e) :
       r.fd = s.fd => d = e /\ r = s

(* A device loses its session to nothing but a call of its own that        *)
(* succeeds: a reopen that fails, at whatever system call, keeps it        *)
(* (tests/test_linux_device.c,                                             *)
(* test_uart_reopen_failure_keeps_existing_session_open).                  *)
FailedOpenKeepsSession ==
  [][\A d \in Devices :
       session'[d] # session[d] => pc[d] # "idle" /\ ret'[d] \in {"opened", "closed"}]_vars

(* An open UART device has its serial line configured as it was asked to,  *)
(* at its baud rate, whatever devices on other lines do                    *)
(* (docs/api-contract.md, POSIX UART adapter contract: configures termios).*)
ConfiguredAsAsked ==
  \A d \in Uarts :
    (pc[d] = "idle" /\ IsOpen(d)) => line[session[d].path] = session[d].baud

(* A serial line that no device uses any more has the settings it was      *)
(* found with, unless tcsetattr itself failed to put them back             *)
(* (docs/api-contract.md: restores saved termios state on close).          *)
SettingsRestored ==
  \A p \in Ttys \ broken :
    (\A d \in Uarts : p \notin {session[d].path, next[d].path}) => line[p] = AsFound
=============================================================================
