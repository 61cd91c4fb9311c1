----------------------------- MODULE DeferredFile -----------------------------
(***************************************************************************)
(* Deferred files (deferred_file.hpp) and the files under them             *)
(* (zpp/file.h).  Each object belongs to one caller; all of them are in    *)
(* one process, share its descriptors and have the same path.  A read or a *)
(* write is a seek and then a loop of system calls, each of which may be   *)
(* interrupted, fail, or transfer less than asked for.                     *)
(***************************************************************************)
EXTENDS Integers, Sequences

CONSTANTS Objects,      \* the deferred_file objects
          Fds,          \* the descriptors that the process can have
          Payload,      \* what a write writes, or the beginning of it
          Offsets,      \* where reads and writes begin
          MaxFile       \* how many bytes the file system has room for

ASSUME FileAssumption ==
    Fds \subseteq Nat /\ Payload \in Seq(Nat) /\ Offsets \subseteq Nat /\ MaxFile \in Nat

VARIABLES
    file,       \* the bytes of the file
    fds,        \* the open descriptors of the process, with their positions
    handle,     \* file_ of each object: NotOpen, or the descriptor it holds
    calls       \* the call that each object is in, or what its last returned

fileVars == <<file, fds, handle, calls>>

NotOpen == -2
INVALID == -1           \* of a handle that was closed or moved from
Thrown == -1

Returned(n)  == [op |-> "none", result |-> n]
InCall(o)    == calls[o].op # "none"
IsOpen(o)    == handle[o] # NotOpen
Pos(o)       == fds[handle[o]]
Ready(o)     == InCall(o) /\ calls[o].begun
Finish(o, n) == calls' = [calls EXCEPT ![o] = Returned(n)]

Least(S)    == CHOOSE x \in S : \A y \in S : x <= y
Unused      == Fds \ DOMAIN fds
Without(fd) == [f \in DOMAIN fds \ {fd} |-> fds[f]]

-----------------------------------------------------------------------------

FileIdle ==
    /\ file = <<>> /\ fds = [f \in {} |-> 0]
    /\ handle = [o \in Objects |-> NotOpen] /\ calls = [o \in Objects |-> Returned(0)]

FileInit ==
    /\ file \in {<<>>, Payload}
    /\ fds = [f \in {} |-> 0]
    /\ handle = [o \in Objects |-> NotOpen]
    /\ calls = [o \in Objects |-> Returned(0)]

\* Descriptors open when a new one is put into object o; emplace destroys
\* the handle that was there.
Opened(o, fd) ==
    LET kept == IF handle[o] \in Fds THEN Without(handle[o]) ELSE fds
    IN  [f \in DOMAIN kept \cup {fd} |-> IF f = fd THEN 0 ELSE kept[f]]

\* An open that finds no descriptor fails, and changes nothing.
Open(o) ==
    /\ ~InCall(o) /\ Unused # {}
    /\ LET fd == Least(Unused)
       IN  /\ fds' = Opened(o, fd)
           /\ handle' = [handle EXCEPT ![o] = fd]
    /\ UNCHANGED <<file, calls>>

\* close(), of an object that is open: the handle gives its descriptor up
\* before the system call, which frees it in any case.  When it reports an
\* error the handle stays, without a descriptor; to close such a handle fails
\* and changes nothing.
Close_KeepsDescriptor(o) ==
    /\ ~InCall(o) /\ handle[o] \in Fds
    /\ fds' = Without(handle[o])
    /\ \E fails \in BOOLEAN : handle' = IF fails THEN handle ELSE [handle EXCEPT ![o] = NotOpen]
    /\ UNCHANGED <<file, calls>>

Close(o) ==
    /\ ~InCall(o) /\ handle[o] \in Fds
    /\ fds' = Without(handle[o])
    /\ \E h \in {NotOpen, INVALID} : handle' = [handle EXCEPT ![o] = h]
    /\ UNCHANGED <<file, calls>>

\* The destructor, and a new object in its place.
Destroy(o) ==
    /\ ~InCall(o) /\ IsOpen(o)
    /\ fds' = Without(handle[o])
    /\ handle' = [handle EXCEPT ![o] = NotOpen]
    /\ UNCHANGED <<file, calls>>

\* The handle of o moves to p, which lets its own go; o still has one,
\* without a descriptor.
Move(o, p) ==
    /\ o # p /\ ~InCall(o) /\ ~InCall(p) /\ IsOpen(o)
    /\ fds' = Without(handle[p])
    /\ handle' = [handle EXCEPT ![o] = INVALID, ![p] = handle[o]]
    /\ UNCHANGED <<file, calls>>

\* A caller calls pread or pwrite.
Enter(o) ==
    /\ ~InCall(o)
    /\ \E op \in {"pread", "pwrite"}, off \in Offsets, len \in 1 .. Len(Payload) :
          calls' = [calls EXCEPT ![o] = [op |-> op, off |-> off, len |-> len, buf |-> <<>>,
                                         done |-> 0, begun |-> FALSE]]
    /\ UNCHANGED <<file, fds, handle>>

\* The position that a new descriptor or an old one is set to.
SeekTo_Current(o) == IF handle[o] \in Fds THEN Pos(o) + calls[o].off ELSE calls[o].off
SeekTo(o)         == calls[o].off

\* Open the file at its first use, and seek.
Begin(o) ==
    /\ InCall(o) /\ ~calls[o].begun /\ handle[o] # INVALID /\ (IsOpen(o) \/ Unused # {})
    /\ LET fd == IF IsOpen(o) THEN handle[o] ELSE Least(Unused)
       IN  /\ fds' = [f \in DOMAIN fds \cup {fd} |-> IF f = fd THEN SeekTo(o) ELSE fds[f]]
           /\ handle' = [handle EXCEPT ![o] = fd]
    /\ calls' = [calls EXCEPT ![o].begun = TRUE]
    /\ UNCHANGED file

\* open or lseek fails; it always does without a descriptor.
BeginThrows(o) ==
    /\ InCall(o) /\ ~calls[o].begun /\ handle[o] \in {NotOpen, INVALID}
    /\ Finish(o, Thrown)
    /\ UNCHANGED <<file, fds, handle>>

\* How many bytes read(2) can have from the position of o.
Available(o) == IF Pos(o) >= Len(file) THEN 0 ELSE Len(file) - Pos(o)
Wanted(o)    == calls[o].len - calls[o].done

\* One read_once that transfers something.
ReadOnce(o) ==
    /\ Ready(o) /\ calls[o].op = "pread" /\ Wanted(o) > 0
    /\ \E n \in 1 .. Wanted(o) :
          /\ n <= Available(o)
          /\ calls' = [calls EXCEPT
                ![o].buf  = SubSeq(@, 1, calls[o].done) \o SubSeq(file, Pos(o) + 1, Pos(o) + n),
                ![o].done = @ + n]
          /\ fds' = [fds EXCEPT ![handle[o]] = @ + n]
    /\ UNCHANGED <<file, handle>>

\* The file when n bytes from at on are bytes; what is skipped reads as zero.
Overwritten(at, bytes) ==
    [i \in 1 .. IF at + Len(bytes) > Len(file) THEN at + Len(bytes) ELSE Len(file) |->
        IF i \in at + 1 .. at + Len(bytes) THEN bytes[i - at]
        ELSE IF i <= Len(file) THEN file[i] ELSE 0]

\* One write_once that transfers something.
WriteOnce(o) ==
    /\ Ready(o) /\ calls[o].op = "pwrite" /\ Wanted(o) > 0
    /\ \E n \in 1 .. Wanted(o) :
          /\ Pos(o) + n <= MaxFile
          /\ file' = Overwritten(Pos(o), SubSeq(Payload, calls[o].done + 1, calls[o].done + n))
          /\ calls' = [calls EXCEPT ![o].done = @ + n]
          /\ fds' = [fds EXCEPT ![handle[o]] = @ + n]
    /\ UNCHANGED handle

\* All bytes are transferred, or read(2) says that the file ends.
Return(o) ==
    /\ Ready(o)
    /\ Wanted(o) <= 0 \/ (calls[o].op = "pread" /\ Available(o) = 0)
    /\ Finish(o, calls[o].done)
    /\ UNCHANGED <<file, fds, handle>>

\* A system call that fails with anything but EINTR; for lack of space, too.
Throw(o) ==
    /\ Ready(o) /\ Wanted(o) > 0
    /\ Finish(o, Thrown)
    /\ UNCHANGED <<file, fds, handle>>

OpenAtFirstUse(o) ==
    IF IsOpen(o) THEN UNCHANGED <<fds, handle>>
    ELSE /\ Unused # {}
         /\ LET fd == Least(Unused)
            IN  fds' = Opened(o, fd) /\ handle' = [handle EXCEPT ![o] = fd]

Truncate(o, size) ==
    /\ ~InCall(o) /\ handle[o] # INVALID
    /\ OpenAtFirstUse(o)
    /\ file' = [i \in 1 .. size |-> IF i <= Len(file) THEN file[i] ELSE 0]
    /\ UNCHANGED calls

Size(o) ==
    /\ ~InCall(o) /\ handle[o] # INVALID
    /\ OpenAtFirstUse(o)
    /\ Finish(o, Len(file))
    /\ UNCHANGED file

FileNext ==
    \E o \in Objects :
        \/ Open(o) \/ Close(o) \/ Destroy(o) \/ \E p \in Objects : Move(o, p)
        \/ Enter(o) \/ Begin(o) \/ BeginThrows(o)
        \/ Size(o) \/ ReadOnce(o) \/ WriteOnce(o) \/ Return(o) \/ Throw(o)
        \/ \E size \in 0 .. MaxFile : Truncate(o, size)

FileSpec == FileInit /\ [][FileNext]_fileVars

-----------------------------------------------------------------------------
(* Properties. *)

\* Every open descriptor is held by one object, and no object holds one that
\* is not open: none is leaked when open is called twice, closed twice after
\* a failure or a move, or used after another object has got its number
\* (deferred_file.hpp:29, zpp/file.h:1289).
DescriptorsOwned ==
    /\ \A fd \in DOMAIN fds : \E o \in Objects : handle[o] = fd /\ \A p \in Objects \ {o} : handle[p] # fd
    /\ \A o \in Objects : handle[o] \in Fds => handle[o] \in DOMAIN fds

\* Whatever the system calls transfer, the bytes that a call has had are those
\* of its own offsets: a step of pread adds to its buffer what the file has
\* there, one of pwrite changes nothing else, and a call comes back with less
\* than it was asked for only where the file ends (deferred_file.hpp:69,
\* zpp/file.h:999).
TransferInPlace(o) ==
    /\ Ready(o) /\ calls'[o].op = "pread" =>
          \A i \in calls[o].done + 1 .. calls'[o].done : calls'[o].buf[i] = file[calls[o].off + i]
    /\ Ready(o) /\ calls'[o].op = "pwrite" /\ calls'[o].done # calls[o].done =>
          \A i \in 1 .. Len(file') :
              IF i - calls[o].off \in calls[o].done + 1 .. calls'[o].done
              THEN file'[i] = Payload[i - calls[o].off]
              ELSE i <= Len(file) => file'[i] = file[i]
    /\ InCall(o) /\ ~InCall(o)' /\ calls'[o].result # Thrown =>
          \/ calls'[o].result = calls[o].len
          \/ calls[o].op = "pread" /\ Len(file) <= calls[o].off + calls'[o].result

\* Every step of every object is such a step, of a read, a write or neither
\* (deferred_file.hpp:69-83).
TransfersInPlace == [][\A o \in Objects : TransferInPlace(o)]_fileVars

=============================================================================
