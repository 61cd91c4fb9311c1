-------------------------------- MODULE Store ---------------------------------
(***************************************************************************)
(* Opening, using, closing and unlinking files of the burst buffer store   *)
(* (bb_store in bb.hpp) through handlers on communicators of any ranks,    *)
(* with the backing file that is opened at its first use                   *)
(* (deferred_file.hpp), while the files come and go in the directory.      *)
(*                                                                         *)
(* A file is one piece here: an index entry is the last write, or None.    *)
(* Trees are those of module BurstBuffer, where all ranks share one file.  *)
(* Collective calls are the entries of coll, in an order that all ranks    *)
(* follow for the calls that they are members of; a handler is known by    *)
(* the number of the call that opened it.                                  *)
(***************************************************************************)
EXTENDS Integers, Sequences, FiniteSets

CONSTANTS
    NRanks,
    Comms,        \* the communicators: sets of ranks
    Paths, Inos,
    OpenFlags,    \* the sets of flags that files are opened with
    MaxCalls,     \* bound on the collective calls
    MaxWrites,    \* bound on the writes of all ranks
    MaxRemoves,   \* bound on the removals of files by others
    UnlinkOpen    \* whether a rank unlinks files that it has open, or not

Ranks == 0 .. NRanks - 1

\* The trees of fewer ranks than half of the world are gathered wrongly: the
\* receive count is the length of a vector of the world's size, divided by the
\* size of the communicator (comm.hpp:85, bb.hpp:130).
ASSUME StoreAssumption ==
    /\ UnlinkOpen \in BOOLEAN
    /\ NRanks \in Nat /\ Inos \subseteq Nat \ {0}
    /\ Comms \subseteq (SUBSET Ranks) \ {{}}
    /\ \A C \in Comms : Cardinality(C) > 1 => NRanks \div Cardinality(C) = 1

VARIABLES
    dir,       \* dir[p]: the inode number of the file named p
    disk,      \* disk[i]: how many files have had the number i, size of the last
    bbs,       \* bbs[r][k]: the bb object that r made in call k
    store,     \* store[r]: bb_store_, those that r has not unlinked
    handlers,  \* handlers[r][k]: r's handler from the open that was call k
    coll,      \* the collective calls
    at,        \* at[r]: the last collective call that r has made
    pc,        \* pc[r]: "idle", or where r is in a call: "gather" or "size"
    nwrites, nremoves,
    holds,     \* history: holds[r]: the files that r has opened and not unlinked
    dropped,   \* history: a rank has unlinked a file
    stale      \* history: a file was removed that a rank has not unlinked

history == <<holds, dropped, stale>>
vars == <<dir, disk, bbs, store, handlers, coll, at, pc, nwrites, nremoves, history>>

NoIno  == 0
NoFile == <<>>
None   == <<>>
File(i, life) == <<i, life>>

\* What an index has of a file: its n-th write.
Entry(n, file) == <<n, file>>

\* The file that has the number i now, and the one a path names.
Now(i)    == File(i, disk[i].life)
InUse(i)  == \/ \E p \in Paths : dir[p] = i
             \/ \E r \in Ranks : \E k \in DOMAIN handlers[r] : handlers[r][k].fd = Now(i)

\* The function f, with v for x.
With(f, x, v) == [y \in DOMAIN f \cup {x} |-> IF y = x THEN v ELSE f[y]]

RootOf(C) == CHOOSE r \in C : \A q \in C : r <= q

\* A bb object, and the open that root r has made of it with what it broadcasts.
NewBb(i) == [ino |-> i, global |-> None, local |-> None]
Failed   == -1
Pending  == -2

OpenCall(C, p, flags, file, size) ==
    [op |-> "open", comm |-> C, path |-> p, flags |-> flags, file |-> file, size |-> size,
     offered |-> [r \in {} |-> None], of |-> 0]

SyncCall(k) == [coll[k] EXCEPT !.op = "sync", !.size = Pending, !.of = k,
                               !.offered = [r \in {} |-> None]]

Calls(r) == {k \in DOMAIN coll : k > at[r] /\ r \in coll[k].comm}
NextCall(r) == CHOOSE k \in Calls(r) : \A l \in Calls(r) : k <= l

\* The handler that call k is made through.
HandlerOf(k) == IF coll[k].op = "open" THEN k ELSE coll[k].of

Init ==
    /\ dir \in [Paths -> {NoIno} \cup Inos]
    /\ \A p, q \in Paths : p # q /\ dir[p] # NoIno => dir[p] # dir[q]
    /\ disk = [i \in Inos |-> [life |-> 0, size |-> IF \E p \in Paths : dir[p] = i THEN 1 ELSE 0]]
    /\ bbs = [r \in Ranks |-> [k \in {} |-> None]]
    /\ store = [r \in Ranks |-> {}]
    /\ handlers = [r \in Ranks |-> [k \in {} |-> {}]]
    /\ coll = <<>> /\ at = [r \in Ranks |-> 0]
    /\ pc = [r \in Ranks |-> "idle"]
    /\ nwrites = 0 /\ nremoves = 0
    /\ holds = [r \in Ranks |-> {}] /\ dropped = FALSE /\ stale = FALSE

-----------------------------------------------------------------------------
(* open *)

\* What open(2) of a path may give a rank: a file, and what becomes of the
\* directory and the disk.  Nothing if there is no file, or if there should
\* be none.
OpenPath(p, flags) ==
    IF dir[p] # NoIno
    THEN IF {"creat", "excl"} \subseteq flags THEN {}
         ELSE {[file |-> Now(dir[p]), dir |-> dir,
                disk |-> IF "trunc" \in flags THEN [disk EXCEPT ![dir[p]].size = 0] ELSE disk]}
    ELSE IF "creat" \notin flags THEN {}
         ELSE {[file |-> File(i, disk[i].life + 1), dir |-> [dir EXCEPT ![p] = i],
                disk |-> [disk EXCEPT ![i] = [life |-> @.life + 1, size |-> 0]]] :
                  i \in {j \in Inos : ~ InUse(j)}}

\* The other ranks open the file without these, whenever they need it.
RankFlags_AsGiven(r, k) == coll[k].flags

RankFlags(r, k) ==
    IF r = RootOf(coll[k].comm) THEN coll[k].flags ELSE coll[k].flags \ {"creat", "excl", "trunc"}

\* The bb of the file in bb_store_, or a new one, is what the handler uses.
Indexed_Anew(r, i) == {}
Indexed(r, i) == {b \in store[r] : bbs[r][b].ino = i}

NextBb(r, i, k) ==
    IF Indexed(r, i) = {} THEN k ELSE CHOOSE b \in Indexed(r, i) : TRUE

\* The trees are exchanged unless the rank is alone in the communicator.
Gather(r, k, calls, tree) ==
    /\ coll' = [calls EXCEPT ![k].offered = With(@, r, tree)]
    /\ pc' = [pc EXCEPT ![r] = IF Cardinality(calls[k].comm) = 1 THEN "idle" ELSE "gather"]

\* The handler of call k, with its file open or to be opened, and the exchange.
Attach(r, k, calls, fd) ==
    LET i == calls[k].file[1]
        b == NextBb(r, i, k)
    IN  /\ bbs' = IF Indexed(r, i) = {} THEN [bbs EXCEPT ![r] = With(@, b, NewBb(i))] ELSE bbs
        /\ store' = [store EXCEPT ![r] = @ \cup {b}]
        /\ handlers' = [handlers EXCEPT ![r] = With(@, k, [bb |-> b, fd |-> fd, size |-> calls[k].size])]
        /\ holds' = [holds EXCEPT ![r] = @ \cup {calls[k].file}]
        /\ Gather(r, k, calls, bbs'[r][b].local)

\* The root opens the file, broadcasts what it is, and goes on.
Open(r, C, p, flags) ==
    LET k == Len(coll) + 1
    IN  /\ pc[r] = "idle" /\ Calls(r) = {} /\ k <= MaxCalls
        /\ r = RootOf(C)
        /\ \E o \in OpenPath(p, flags) :
              /\ dir' = o.dir /\ disk' = o.disk
              /\ Attach(r, k, Append(coll, OpenCall(C, p, flags, o.file, o.disk[o.file[1]].size)), o.file)
        /\ at' = [at EXCEPT ![r] = k]
        /\ UNCHANGED <<nwrites, nremoves, dropped, stale>>

OpenFails_Silently(r, C, p) ==
    /\ pc[r] = "idle" /\ Calls(r) = {} /\ Len(coll) < MaxCalls
    /\ r = RootOf(C)
    /\ coll' = Append(coll, OpenCall(C, p, {}, NoFile, Pending))
    /\ at' = [at EXCEPT ![r] = Len(coll) + 1]
    /\ UNCHANGED <<dir, disk, bbs, store, handlers, pc, nwrites, nremoves, history>>

\* It may fail for other reasons than the file's.  All ranks throw then.
OpenFails(r, C, p) ==
    /\ pc[r] = "idle" /\ Calls(r) = {} /\ Len(coll) < MaxCalls
    /\ r = RootOf(C)
    /\ coll' = Append(coll, OpenCall(C, p, {}, NoFile, Failed))
    /\ at' = [at EXCEPT ![r] = Len(coll) + 1]
    /\ UNCHANGED <<dir, disk, bbs, store, handlers, pc, nwrites, nremoves, history>>

\* What the root broadcasts in a call reaches the others.
Broadcast(k) == coll[k].size # Pending

OpenOther(r) ==
    /\ pc[r] = "idle" /\ Calls(r) # {}
    /\ LET k == NextCall(r)
       IN  /\ coll[k].op = "open" /\ Broadcast(k)
           /\ at' = [at EXCEPT ![r] = k]
           /\ IF coll[k].size = Failed
              THEN UNCHANGED <<bbs, store, handlers, coll, pc, holds>>
              ELSE Attach(r, k, coll, NoFile)
    /\ UNCHANGED <<dir, disk, nwrites, nremoves, dropped, stale>>

-----------------------------------------------------------------------------
(* The exchange of trees, in open and in sync. *)

\* Of the entries offered, and the one there was, the highest rank's wins.
Newest(entry, offered) ==
    LET writers == {r \in DOMAIN offered : offered[r] # None}
    IN  IF writers = {} THEN entry
        ELSE offered[CHOOSE r \in writers : \A q \in writers : q <= r]

Merge_ClearsLocal(r) ==
    LET k == at[r]
        b == handlers[r][HandlerOf(k)].bb
    IN  /\ pc[r] = "gather" /\ DOMAIN coll[k].offered = coll[k].comm
        /\ bbs' = [bbs EXCEPT ![r][b].global = Newest(@, coll[k].offered), ![r][b].local = None]
        /\ pc' = [pc EXCEPT ![r] = IF coll[k].op = "open" THEN "idle" ELSE "size"]
        /\ UNCHANGED <<dir, disk, store, handlers, coll, at, nwrites, nremoves, history>>

Merge(r) ==
    LET k == at[r]
        b == handlers[r][HandlerOf(k)].bb
    IN  /\ pc[r] = "gather" /\ DOMAIN coll[k].offered = coll[k].comm
        /\ bbs' = [bbs EXCEPT ![r][b].global = Newest(@, coll[k].offered),
                              ![r][b].local = IF coll[k].comm = Ranks THEN None ELSE @]
        /\ pc' = [pc EXCEPT ![r] = IF coll[k].op = "open" THEN "idle" ELSE "size"]
        /\ UNCHANGED <<dir, disk, store, handlers, coll, at, nwrites, nremoves, history>>

\* sync through the handler of open h: whoever comes first makes the call.
EnterSync(r, k, calls) ==
    /\ coll' = [calls EXCEPT ![k].offered = With(@, r, bbs[r][handlers[r][calls[k].of].bb].local)]
    /\ pc' = [pc EXCEPT ![r] = IF Cardinality(calls[k].comm) = 1 THEN "size" ELSE "gather"]
    /\ at' = [at EXCEPT ![r] = k]

Sync(r, h) ==
    /\ pc[r] = "idle" /\ Calls(r) = {} /\ Len(coll) < MaxCalls
    /\ h \in DOMAIN handlers[r]
    /\ \A q \in coll[h].comm : at[q] >= h => h \in DOMAIN handlers[q]
    /\ EnterSync(r, Len(coll) + 1, Append(coll, SyncCall(h)))
    /\ UNCHANGED <<dir, disk, bbs, store, handlers, nwrites, nremoves, history>>

SyncOther(r) ==
    /\ pc[r] = "idle" /\ Calls(r) # {}
    /\ coll[NextCall(r)].op = "sync"
    /\ EnterSync(r, NextCall(r), coll)
    /\ UNCHANGED <<dir, disk, bbs, store, handlers, nwrites, nremoves, history>>

\* The root asks for the size of the file, which it has opened.
SyncSizeRoot(r) ==
    LET k == at[r]
        h == coll[k].of
    IN  /\ pc[r] = "size" /\ r = RootOf(coll[k].comm)
        /\ \E size \in {disk[handlers[r][h].fd[1]].size, Failed} :
              /\ coll' = [coll EXCEPT ![k].size = size]
              /\ handlers' = IF size = Failed THEN handlers ELSE [handlers EXCEPT ![r][h].size = size]
        /\ pc' = [pc EXCEPT ![r] = "idle"]
        /\ UNCHANGED <<dir, disk, bbs, store, at, nwrites, nremoves, history>>

SyncSize(r) ==
    LET k == at[r]
        h == coll[k].of
    IN  /\ pc[r] = "size" /\ r # RootOf(coll[k].comm)
        /\ Broadcast(k)
        /\ handlers' = IF coll[k].size = Failed THEN handlers
                       ELSE [handlers EXCEPT ![r][h].size = coll[k].size]
        /\ pc' = [pc EXCEPT ![r] = "idle"]
        /\ UNCHANGED <<dir, disk, bbs, store, coll, at, nwrites, nremoves, history>>

-----------------------------------------------------------------------------
(* What a rank does by itself. *)

\* The n-th write of all ranks, to the file that the handler was opened for.
Pwrite(r, h) ==
    /\ pc[r] = "idle" /\ nwrites < MaxWrites
    /\ h \in DOMAIN handlers[r]
    /\ nwrites' = nwrites + 1
    /\ bbs' = [bbs EXCEPT ![r][handlers[r][h].bb].local = Entry(nwrites, coll[h].file)]
    /\ UNCHANGED <<dir, disk, store, handlers, coll, at, pc, nremoves, history>>

\* A read goes to the backing file, which is opened if it is not yet.
OpenDeferred(r, h) ==
    /\ pc[r] = "idle"
    /\ h \in DOMAIN handlers[r] /\ handlers[r][h].fd = NoFile
    /\ \E o \in OpenPath(coll[h].path, RankFlags(r, h)) :
          /\ handlers' = [handlers EXCEPT ![r][h].fd = o.file]
          /\ dir' = o.dir /\ disk' = o.disk
    /\ UNCHANGED <<bbs, store, coll, at, pc, nwrites, nremoves, history>>

\* A bb that is neither in bb_store_ nor used by a handler is deleted.
Release(r) ==
    LET used == store'[r] \cup {handlers'[r][h].bb : h \in DOMAIN handlers'[r]}
    IN  bbs' = [bbs EXCEPT ![r] = [b \in DOMAIN @ \cap used |-> @[b]]]

\* The program closes its handlers when no call through them is to come.
Close(r, h) ==
    /\ pc[r] = "idle" /\ Calls(r) = {}
    /\ h \in DOMAIN handlers[r]
    /\ handlers' = [handlers EXCEPT ![r] = [k \in DOMAIN @ \ {h} |-> @[k]]]
    /\ store' = store
    /\ Release(r)
    /\ UNCHANGED <<dir, disk, coll, at, pc, nwrites, nremoves, history>>

Unlink_KeepsWritten(r, p) ==
    /\ pc[r] = "idle"
    /\ dir[p] # NoIno
    /\ Indexed(r, dir[p]) # {}
    /\ UnlinkOpen \/ \A h \in DOMAIN handlers[r] : handlers[r][h].bb \notin Indexed(r, dir[p])
    /\ store' = [store EXCEPT ![r] = {b \in @ : bbs[r][b].ino # dir[p] \/ bbs[r][b].local # None}]
    /\ handlers' = handlers
    /\ Release(r)
    /\ holds' = [holds EXCEPT ![r] = @ \ {Now(dir[p])}]
    /\ dropped' = TRUE
    /\ UNCHANGED <<dir, disk, coll, at, pc, nwrites, nremoves, stale>>

\* unlink looks up the number of the file and forgets the bb of that number.
Unlink(r, p) ==
    /\ pc[r] = "idle"
    /\ dir[p] # NoIno
    /\ Indexed(r, dir[p]) # {}
    /\ UnlinkOpen \/ \A h \in DOMAIN handlers[r] : handlers[r][h].bb \notin Indexed(r, dir[p])
    /\ store' = [store EXCEPT ![r] = @ \ Indexed(r, dir[p])]
    /\ handlers' = handlers
    /\ Release(r)
    /\ holds' = [holds EXCEPT ![r] = @ \ {Now(dir[p])}]
    /\ dropped' = TRUE
    /\ UNCHANGED <<dir, disk, coll, at, pc, nwrites, nremoves, stale>>

\* Somebody removes the file: its name goes, and its number when it is closed.
Remove(p) ==
    /\ dir[p] # NoIno /\ nremoves < MaxRemoves
    /\ nremoves' = nremoves + 1
    /\ dir' = [dir EXCEPT ![p] = NoIno]
    /\ stale' = \/ stale
                \/ \E r \in Ranks : \/ Now(dir[p]) \in holds[r]
                                    \/ \E k \in Calls(r) : coll[k].file = Now(dir[p])
    /\ UNCHANGED <<disk, bbs, store, handlers, coll, at, pc, nwrites, holds, dropped>>

-----------------------------------------------------------------------------

\* The ranks have made all their calls, or need not make any more.
Finished ==
    /\ \A r \in Ranks : pc[r] = "idle" /\ Calls(r) = {}
    /\ UNCHANGED vars

\* A rank goes on with the call it is in, and joins the calls that others have
\* made: the collective calls of a program match.
Progress(r) == OpenOther(r) \/ Merge(r) \/ SyncOther(r) \/ SyncSizeRoot(r) \/ SyncSize(r)

Next ==
    \/ \E r \in Ranks :
          \/ \E C \in Comms, p \in Paths :
                \/ \E flags \in OpenFlags : Open(r, C, p, flags)
                \/ OpenFails(r, C, p)
          \/ Progress(r)
          \/ \E h \in DOMAIN handlers[r] :
                Sync(r, h) \/ Pwrite(r, h) \/ OpenDeferred(r, h) \/ Close(r, h)
          \/ \E p \in Paths : Unlink(r, p)
    \/ \E p \in Paths : Remove(p)
    \/ Finished

FairSpec == Init /\ [][Next]_vars /\ \A r \in Ranks : WF_vars(Progress(r))

-----------------------------------------------------------------------------
(* Properties. *)

BbOf(r, h) == bbs[r][handlers[r][h].bb]

\* What a rank reads through a handler: its own entry goes before the common one.
View(r, h) == IF BbOf(r, h).local # None THEN BbOf(r, h).local ELSE BbOf(r, h).global

\* A file is created, found to be there already or cut once for an open,
\* although every rank of the communicator opens it in the end: a file loses
\* its bytes only when a root opens it.
CutByRootOnly ==
    [][\A i \in Inos :
          disk'[i].size < disk[i].size \/ disk'[i].life > disk[i].life =>
              Len(coll') = Len(coll) + 1 /\ coll'[Len(coll')].flags # {}]_vars

\* A rank that finds something in a file finds a write to that file, not to an
\* earlier one with the same inode number, provided that every rank unlinks a
\* file before it is removed.
NoForeignBytes ==
    ~ stale => \A r \in Ranks : \A h \in DOMAIN handlers[r] :
                   View(r, h) # None => View(r, h)[2] = coll[h].file

\* No rank is to merge entries of the file with the number i, and none keeps
\* an entry of its own.
Quiet(i) ==
    \A r \in Ranks :
        /\ \A k \in Calls(r) \cup (IF pc[r] = "gather" THEN {at[r]} ELSE {}) :
              coll[k].file = NoFile \/ coll[k].file[1] # i
        /\ \A b \in Indexed(r, i) : bbs[r][b].local = None

\* Ranks that exchanged their trees in different groups still agree on a file
\* in the end: where the index differs between two ranks, a rank still keeps
\* an entry that it will offer to all of them.
NothingLeftBehind ==
    ~ dropped => \A i \in Inos :
        Quiet(i) => \A r, q \in Ranks : \A b \in Indexed(r, i), c \in Indexed(q, i) :
                        bbs[r][b].global = bbs[q][c].global

\* Handlers of a rank for one file use one index: what is written through one
\* is read through the other.
HandlersShareIndex ==
    ~ dropped => \A r \in Ranks : \A h, g \in DOMAIN handlers[r] :
                    coll[h].file = coll[g].file => handlers[r][h].bb = handlers[r][g].bb

Returned(r, k) == at[r] > k \/ (at[r] = k /\ pc[r] = "idle")

\* A collective open or sync that one rank has begun ends on every rank, with
\* a handler or an exception, also when the root cannot open the file.
CallsReturn ==
    \A k \in 1 .. MaxCalls :
        Len(coll) >= k ~> Len(coll) >= k /\ \A r \in coll[k].comm : Returned(r, k)

=============================================================================
