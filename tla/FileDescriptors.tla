-------------------------- MODULE FileDescriptors --------------------------
(***************************************************************************)
(* The file descriptors of processor A's HAL: open, close, read, write,    *)
(* ioctl and fcntl over a fixed pool of descriptors and the two devices    *)
(* that are registered, the null device and the JTAG UART; no file system  *)
(* is.  The first three descriptors lead to the null device until          *)
(* alt_io_redirect has given them the console, and are never handed back.  *)
(*                                                                         *)
(* There is one thread, and no interrupt routine uses a descriptor: a call *)
(* is one step.  What matters is the sequence of calls a program makes.    *)
(***************************************************************************)
EXTENDS Naturals, Integers, FiniteSets

CONSTANT ALT_MAX_FD
PoolAssumption == ALT_MAX_FD \in Nat /\ ALT_MAX_FD > 3

VARIABLES
  alt_fd_list, alt_max_fd,
  redirected,      (* how many of the standard streams alt_io_redirect has set *)
  held,            (* history: open descriptors, with device and mode          *)
  result           (* what the last call came to                               *)

vars == <<alt_fd_list, alt_max_fd, redirected, held, result>>

Descriptor == 0..(ALT_MAX_FD - 1)
Device == {"null", "jtag"}
NoDevice == "0"
Mode == {"O_RDONLY", "O_WRONLY", "O_RDWR"}

\* What each device implements; and the names a program may open.
Implements(dev) == IF dev = "jtag" THEN {"close", "read", "write", "ioctl"} ELSE {"write"}
alt_find_dev(name) == IF name \in Device THEN name ELSE NoDevice
Names == Device \cup {"other"}

Free == [dev |-> NoDevice, mode |-> "O_RDONLY", nonblock |-> FALSE, excl |-> FALSE,
         isdev |-> FALSE]
isOpen(fd) == held[fd].dev # NoDevice
NotHeld == [dev |-> NoDevice, mode |-> "O_RDONLY"]

(***************************************************************************)
(* alt_get_fd takes the first free descriptor; alt_release_fd frees one.   *)
(***************************************************************************)
FreeIn(list) == {i \in Descriptor : list[i].dev = NoDevice}
alt_get_fd(list) == CHOOSE i \in FreeIn(list) : \A j \in FreeIn(list) : i <= j

\* Mutant: the mark follows the last descriptor taken, down as well.
HighWater_Last(fd) == fd
HighWater(fd) == IF fd > alt_max_fd THEN fd ELSE alt_max_fd

Release(list, fd) == IF fd > 2 THEN [list EXCEPT ![fd] = Free] ELSE list

\* alt_file_locked, of the descriptor fd just taken.
\* Mutant: the highest descriptor is not looked at.
Locked_BelowMax(list, fd, max) ==
  \E i \in 0..(max - 1) : i # fd /\ list[i].dev = list[fd].dev /\ list[i].excl
Locked(list, fd, max) ==
  \E i \in 0..max : i # fd /\ list[i].dev = list[fd].dev /\ list[i].excl

\* Mutant: open gives up without handing back what it took.
GiveUp_KeepsIt(list, fd) == list
GiveUp(list, fd) == Release(list, fd)

\* What open makes of the pool, and what it returns; fd is -1 when it fails.
Opening(name, mode, nonblock) ==
  LET dev  == alt_find_dev(name)
      fd   == alt_get_fd(alt_fd_list)
      max  == HighWater(fd)
      list == [alt_fd_list EXCEPT ![fd] = [dev |-> dev, mode |-> mode, nonblock |-> nonblock,
                                           excl |-> FALSE, isdev |-> TRUE]]
      Failed(err) == [list |-> alt_fd_list, max |-> alt_max_fd, fd |-> -1, err |-> err]
  IN  CASE dev = NoDevice -> Failed("ENODEV")
        [] dev # NoDevice /\ FreeIn(alt_fd_list) = {} -> Failed("EMFILE")
        [] OTHER ->
             IF Locked(list, fd, max)
             THEN [Failed("EACCES") EXCEPT !.list = GiveUp(list, fd), !.max = max]
             ELSE [list |-> list, max |-> max, fd |-> fd, err |-> "done"]

(***************************************************************************)
(* Start-up: alt_io_redirect opens the console for standard output, input  *)
(* and error in turn, copies each descriptor to its place and frees it.    *)
(***************************************************************************)
Stream == <<1, 0, 2>>
StreamMode == <<"O_WRONLY", "O_RDONLY", "O_WRONLY">>

HandOver(list, std, fd) == Release([list EXCEPT ![std] = list[fd]], fd)

alt_open_fd ==
  /\ redirected < 3 /\ redirected' = redirected + 1
  /\ LET std  == Stream[redirected + 1]
         mode == StreamMode[redirected + 1]
         o    == Opening("jtag", mode, FALSE)
     IN  /\ alt_fd_list' = IF o.fd >= 0 THEN HandOver(o.list, std, o.fd) ELSE o.list
         /\ alt_max_fd' = o.max
         /\ held' = [held EXCEPT ![std] = [dev |-> "jtag", mode |-> mode]]
  /\ UNCHANGED result

(***************************************************************************)
(* The program's calls, once main runs.  It uses descriptors it has open;  *)
(* those that open did not give it are negative and are refused.           *)
(***************************************************************************)
Running == redirected = 3
Open == {fd \in Descriptor : isOpen(fd)}

open(name, mode, nonblock) ==
  LET o == Opening(name, mode, nonblock)
  IN  /\ Running
      /\ alt_fd_list' = o.list /\ alt_max_fd' = o.max
      /\ result' = o.err
      /\ held' = IF o.fd >= 0 THEN [held EXCEPT ![o.fd] = [dev |-> name, mode |-> mode]] ELSE held
      /\ UNCHANGED redirected

\* The driver may say that the call would block; it is closed all the same.
close(fd) ==
  /\ Running
  /\ alt_fd_list' = Release(alt_fd_list, fd)
  /\ result' \in IF "close" \in Implements(alt_fd_list[fd].dev) THEN {"done", "EWOULDBLOCK"}
                ELSE {"done"}
  /\ held' = [held EXCEPT ![fd] = NotHeld]
  /\ UNCHANGED <<alt_max_fd, redirected>>

\* read and write reach the driver, or are refused.
Allows(fd, op) ==
  /\ op \in Implements(alt_fd_list[fd].dev)
  /\ alt_fd_list[fd].mode # IF op = "read" THEN "O_WRONLY" ELSE "O_RDONLY"
transfer(fd, op) ==
  /\ Running
  /\ result' = IF Allows(fd, op) THEN "driver" ELSE "EACCES"
  /\ UNCHANGED <<alt_fd_list, alt_max_fd, redirected, held>>

\* alt_fd_lock looks below the highest descriptor.
lock(fd) ==
  LET taken == \E i \in 0..(alt_max_fd - 1) : i # fd /\ alt_fd_list[i].dev = alt_fd_list[fd].dev
  IN  /\ Running /\ alt_fd_list[fd].isdev
      /\ alt_fd_list' = IF taken THEN alt_fd_list ELSE [alt_fd_list EXCEPT ![fd].excl = TRUE]
      /\ result' = IF taken THEN "EACCES" ELSE "done"
      /\ UNCHANGED <<alt_max_fd, redirected, held>>

unlock(fd) ==
  /\ Running /\ alt_fd_list[fd].isdev
  /\ alt_fd_list' = [alt_fd_list EXCEPT ![fd].excl = FALSE]
  /\ result' = "done"
  /\ UNCHANGED <<alt_max_fd, redirected, held>>

ioctl(fd) ==
  /\ Running
  /\ result' = IF "ioctl" \in Implements(alt_fd_list[fd].dev) THEN "driver" ELSE "ENOTTY"
  /\ UNCHANGED <<alt_fd_list, alt_max_fd, redirected, held>>

\* fcntl, F_SETFL: only O_NONBLOCK, and O_APPEND, which nothing reads, are the
\* caller's to change.
\* Mutant: the other flags are taken from the caller as well.
SetFlags_All(fd, nonblock) ==
  /\ Running
  /\ alt_fd_list' = [alt_fd_list EXCEPT ![fd].nonblock = nonblock, ![fd].mode = "O_RDONLY",
                                        ![fd].excl = FALSE]
  /\ result' = "done"
  /\ UNCHANGED <<alt_max_fd, redirected, held>>
SetFlags(fd, nonblock) ==
  /\ Running
  /\ alt_fd_list' = [alt_fd_list EXCEPT ![fd].nonblock = nonblock]
  /\ result' = "done"
  /\ UNCHANGED <<alt_max_fd, redirected, held>>

\* fcntl, F_GETFL and the commands there are not.
OtherCommand ==
  /\ Running
  /\ result' \in {"done", "EINVAL"}
  /\ UNCHANGED <<alt_fd_list, alt_max_fd, redirected, held>>

\* close, read, write, ioctl or fcntl of a negative descriptor, as a failed open
\* returns it.
BadDescriptor ==
  /\ Running
  /\ result' = "EBADFD"
  /\ UNCHANGED <<alt_fd_list, alt_max_fd, redirected, held>>

Init ==
  /\ alt_fd_list = [i \in Descriptor |-> IF i <= 2 THEN [Free EXCEPT !.dev = "null"] ELSE Free]
  /\ alt_max_fd = -1 /\ redirected = 0
  /\ held = [i \in Descriptor |-> NotHeld]
  /\ result = "done"

Next ==
  \/ alt_open_fd
  \/ \E name \in Names, mode \in Mode, nonblock \in BOOLEAN : open(name, mode, nonblock)
  \/ \E fd \in Open : close(fd) \/ lock(fd) \/ unlock(fd) \/ ioctl(fd)
  \/ \E fd \in Open, op \in {"read", "write"} : transfer(fd, op)
  \/ \E fd \in Open, nonblock \in BOOLEAN : SetFlags(fd, nonblock)
  \/ OtherCommand \/ BadDescriptor
Spec == Init /\ [][Next]_vars

-----------------------------------------------------------------------------
TypeOK ==
  /\ alt_fd_list \in [Descriptor -> [dev : Device \cup {NoDevice}, mode : Mode,
                                     nonblock : BOOLEAN, excl : BOOLEAN, isdev : BOOLEAN]]
  /\ alt_max_fd \in -1..(ALT_MAX_FD - 1) /\ redirected \in 0..3
  /\ held \in [Descriptor -> [dev : Device \cup {NoDevice}, mode : Mode]]

\* An open descriptor leads where it was opened to, with the access it was
\* opened for, whatever has been opened, closed, locked and set since.
KeepsMeaning ==
  \A fd \in Open : alt_fd_list[fd].dev = held[fd].dev /\ alt_fd_list[fd].mode = held[fd].mode

\* Nothing is lost of the pool: beyond the three standard streams the
\* descriptors in use are the program's open ones, after failed calls too.
NoLeak == Running => {fd \in Descriptor : alt_fd_list[fd].dev # NoDevice} = Open \cup 0..2

\* The mark is at or above every descriptor in use beyond the streams: the
\* searches for a lock, which stop there, do not stop short of one.
MarkAbove == \A fd \in 3..(ALT_MAX_FD - 1) : alt_fd_list[fd].dev # NoDevice => fd <= alt_max_fd

\* alt_fd_lock.c:44-45: "Further calls to open() for this device will fail
\* until the lock is released."
Users(dev) == {fd \in Open : held[fd].dev = dev}
LockedOut ==
  [][\A fd \in Open : alt_fd_list[fd].excl /\ fd \in Open' /\ alt_fd_list'[fd].excl
        => Users(held[fd].dev)' \subseteq Users(held[fd].dev)]_vars

\* alt_fd_lock.c:43-44: "If there are no other open file descriptors which
\* reference the same device, then alt_fd_lock() will grant the lock."  A
\* lock that is granted is exclusive.
LockExclusive ==
  \A fd \in Open : alt_fd_list[fd].excl => Users(held[fd].dev) = {fd}
=============================================================================
