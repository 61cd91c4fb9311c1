------------------------------ MODULE Snapshot -------------------------------
(***************************************************************************)
(* save and load of the burst buffers of all ranks (bb_store in bb.hpp):   *)
(* each rank appends its indices to its ring in persistent memory and then *)
(* records, behind the ring, where they are and how far the ring goes; a   *)
(* store that starts on the same memory reads them back.  The job may die  *)
(* between any two steps, and while a rank writes that record.             *)
(*                                                                         *)
(* A file is one piece here: an index is a pointer into a ring, or none.   *)
(* Trees and the exchange of them are those of module BurstBuffer.  One    *)
(* write, and one saved index, take one unit of a ring.                    *)
(***************************************************************************)
EXTENDS Integers, FiniteSets

CONSTANTS
    NRanks, Inos,
    RingSize,
    MaxWrites,    \* bound on the writes of a rank
    MaxCrashes,   \* bound on the crashes
    MaxTorn       \* bound on the ranks whose metadata one crash tears

ASSUME SnapshotAssumption == NRanks \in Nat /\ RingSize \in Nat

Ranks == 0 .. NRanks - 1
Lsns  == 0 .. RingSize - 1

VARIABLES
    ring,      \* persistent: the rings
    meta,      \* persistent: block_metadata of each rank
    head,      \* head of the volatile tracker of each rank
    store,     \* bb_store_ of each rank: the open files with their two indices
    pc,        \* "fresh", "idle", "save", or "broken" after a bad load
    snap,      \* snapshot_lsn of a save that goes on
    todo,      \* the files it has still to write
    nwrites, ncrashes,
    saved,     \* history: what the last save that was completed has saved
    torn,      \* history: a crash has torn the metadata of a rank
    sound      \* history: no crash left a snapshot without what it points at

persistent == <<ring, meta>>
history    == <<saved, torn, sound>>
vars == <<ring, meta, head, store, pc, snap, todo, nwrites, ncrashes, saved, torn, sound>>

\* What a unit of a ring holds: the n-th write of a rank, or an index.
Blank        == [kind |-> "blank"]
Data(r, n)   == [kind |-> "data", rank |-> r, n |-> n]
Saved(i, bb) == [kind |-> "bb", ino |-> i, bb |-> bb]

\* A pointer knows, beside its client and LSN, which write it is meant to find.
None            == <<>>
Pointer(c, l, n) == <<c, l, n>>

NewBb  == [global |-> None, local |-> None]
Empty  == [i \in {} |-> NewBb]

\* Memory that was never used is zero.
NewMeta == [size |-> 0, head |-> 0, lsn |-> 0]

Init ==
    /\ ring = [r \in Ranks |-> [l \in Lsns |-> Blank]]
    /\ meta = [r \in Ranks |-> NewMeta]
    /\ head = [r \in Ranks |-> 0]
    /\ store = [r \in Ranks |-> Empty]
    /\ pc = [r \in Ranks |-> "idle"]
    /\ snap = [r \in Ranks |-> 0]
    /\ todo = [r \in Ranks |-> {}]
    /\ nwrites = [r \in Ranks |-> 0] /\ ncrashes = 0
    /\ saved = [r \in Ranks |-> Empty]
    /\ torn = [r \in Ranks |-> FALSE] /\ sound = TRUE

-----------------------------------------------------------------------------
(* Files in use. *)

\* reserve_nb and pwrite of the ring: the unit is persistent when it returns.
AppendToRing(r, unit) ==
    /\ head[r] < RingSize
    /\ ring' = [ring EXCEPT ![r][head[r]] = unit]
    /\ head' = [head EXCEPT ![r] = @ + 1]

Pwrite(r, i) ==
    /\ pc[r] = "idle" /\ i \in DOMAIN store[r]
    /\ nwrites[r] < MaxWrites
    /\ AppendToRing(r, Data(r, nwrites[r]))
    /\ store' = [store EXCEPT ![r][i].local = Pointer(r, head[r], nwrites[r])]
    /\ nwrites' = [nwrites EXCEPT ![r] = @ + 1]
    /\ UNCHANGED <<meta, pc, snap, todo, ncrashes, history>>

BbOf(r, i) == IF i \in DOMAIN store[r] THEN store[r][i] ELSE NewBb

\* The local indices are exchanged: that of the last rank that wrote stays.  A
\* rank that is alone exchanges nothing and keeps its own.
Exchanged(r, i) ==
    LET writers == {q \in Ranks : BbOf(q, i).local # None}
        newest  == BbOf(CHOOSE q \in writers : \A p \in writers : p <= q, i).local
    IN  IF NRanks = 1 THEN BbOf(r, i)
        ELSE [local |-> None, global |-> IF writers = {} THEN BbOf(r, i).global ELSE newest]

\* open, of all ranks: the file's bb is made unless there is one.
Open(i) ==
    /\ \A r \in Ranks : pc[r] = "idle"
    /\ store' = [r \in Ranks |->
          [j \in DOMAIN store[r] \cup {i} |-> IF j = i THEN Exchanged(r, i) ELSE store[r][j]]]
    /\ UNCHANGED <<persistent, head, pc, snap, todo, nwrites, ncrashes, history>>

-----------------------------------------------------------------------------
(* save: the indices first, the metadata last. *)

SaveBegins(r) ==
    /\ pc[r] = "idle"
    /\ pc' = [pc EXCEPT ![r] = "save"]
    /\ snap' = [snap EXCEPT ![r] = head[r]]
    /\ todo' = [todo EXCEPT ![r] = DOMAIN store[r]]
    /\ UNCHANGED <<persistent, head, store, nwrites, ncrashes, history>>

SaveBb(r, i) ==
    /\ pc[r] = "save" /\ i \in todo[r]
    /\ AppendToRing(r, Saved(i, store[r][i]))
    /\ todo' = [todo EXCEPT ![r] = @ \ {i}]
    /\ UNCHANGED <<meta, store, pc, snap, nwrites, ncrashes, history>>

\* "local ring is full": what was appended stays reserved.
SaveThrows(r) ==
    /\ pc[r] = "save" /\ todo[r] # {}
    /\ head[r] = RingSize
    /\ pc' = [pc EXCEPT ![r] = "idle"]
    /\ snap' = [snap EXCEPT ![r] = 0] /\ todo' = [todo EXCEPT ![r] = {}]
    /\ UNCHANGED <<persistent, head, store, nwrites, ncrashes, history>>

Metadata(r) == [size |-> RingSize, head |-> head[r], lsn |-> snap[r]]

\* Altered: the metadata of a save that has thrown is written all the same.
SaveMetadata_Early(r) ==
    /\ pc[r] = "save" /\ (todo[r] = {} \/ head[r] = RingSize)
    /\ meta' = [meta EXCEPT ![r] = Metadata(r)]
    /\ saved' = [saved EXCEPT ![r] = store[r]]
    /\ torn' = [torn EXCEPT ![r] = FALSE]
    /\ pc' = [pc EXCEPT ![r] = "idle"]
    /\ snap' = [snap EXCEPT ![r] = 0] /\ todo' = [todo EXCEPT ![r] = {}]
    /\ UNCHANGED <<ring, head, store, nwrites, ncrashes, sound>>

SaveMetadata(r) ==
    /\ pc[r] = "save" /\ todo[r] = {}
    /\ meta' = [meta EXCEPT ![r] = Metadata(r)]
    /\ saved' = [saved EXCEPT ![r] = store[r]]
    /\ torn' = [torn EXCEPT ![r] = FALSE]
    /\ pc' = [pc EXCEPT ![r] = "idle"]
    /\ snap' = [snap EXCEPT ![r] = 0] /\ todo' = [todo EXCEPT ![r] = {}]
    /\ UNCHANGED <<ring, head, store, nwrites, ncrashes, sound>>

-----------------------------------------------------------------------------
(* The job dies: all ranks at once, some of them while they write their     *)
(* metadata, whose words need not reach the memory together. The next job    *)
(* constructs its stores with an empty ring, whatever the memory holds.      *)

Pointers(bbs) ==
    {p \in UNION {{bbs[i].global, bbs[i].local} : i \in DOMAIN bbs} : p # None}

Crash ==
    /\ ncrashes < MaxCrashes
    /\ \E r \in Ranks : pc[r] # "fresh"
    /\ \E tearing \in SUBSET {r \in Ranks : pc[r] = "save" /\ todo[r] = {}} :
          /\ \E done \in [tearing -> SUBSET {"size", "head", "lsn"}] :
                meta' = [r \in Ranks |->
                            [w \in DOMAIN meta[r] |->
                                IF r \in tearing /\ w \in done[r] THEN Metadata(r)[w]
                                ELSE meta[r][w]]]
          /\ torn' = [r \in Ranks |-> torn[r] \/ r \in tearing]
          /\ Cardinality(tearing) <= MaxTorn
          /\ sound' = /\ sound
                      /\ tearing = {}
                      /\ \A r \in Ranks : \A p \in Pointers(saved[r]) :
                            p[2] < meta[p[1]].head
    /\ head' = [r \in Ranks |-> 0]
    /\ store' = [r \in Ranks |-> Empty]
    /\ snap' = [r \in Ranks |-> 0] /\ todo' = [r \in Ranks |-> {}]
    /\ pc' = [r \in Ranks |-> "fresh"]
    /\ ncrashes' = ncrashes + 1
    /\ UNCHANGED <<ring, nwrites, saved>>

\* The indices that load reads: of two of one file the first is inserted.
Snapshots(r) == {l \in meta[r].lsn .. meta[r].head - 1 : ring[r][l].kind = "bb"}

Loaded(r) ==
    [i \in {ring[r][l].ino : l \in Snapshots(r)} |->
        ring[r][CHOOSE l \in Snapshots(r) :
            /\ ring[r][l].ino = i
            /\ \A k \in Snapshots(r) : ring[r][k].ino = i => l <= k].bb]

\* Altered: the tracker that was saved is not set.
Load_KeepsTracker(r) ==
    /\ pc[r] = "fresh"
    /\ IF Snapshots(r) = meta[r].lsn .. meta[r].head - 1 /\ meta[r].size > 0
       THEN /\ store' = [store EXCEPT ![r] = Loaded(r)]
            /\ pc' = [pc EXCEPT ![r] = "idle"]
       ELSE /\ pc' = [pc EXCEPT ![r] = "broken"]
            /\ UNCHANGED store
    /\ UNCHANGED <<persistent, head, snap, todo, nwrites, ncrashes, history>>

\* load leaves no store of use when it takes something else for an index, and
\* when nothing was ever saved there: the tracker that it reads has no capacity.
Load(r) ==
    /\ pc[r] = "fresh"
    /\ head' = [head EXCEPT ![r] = meta[r].head]
    /\ IF Snapshots(r) = meta[r].lsn .. meta[r].head - 1 /\ meta[r].size > 0
       THEN /\ store' = [store EXCEPT ![r] = Loaded(r)]
            /\ pc' = [pc EXCEPT ![r] = "idle"]
       ELSE /\ pc' = [pc EXCEPT ![r] = "broken"]
            /\ UNCHANGED store
    /\ UNCHANGED <<persistent, snap, todo, nwrites, ncrashes, history>>

Next ==
    \/ \E r \in Ranks :
          \/ \E i \in Inos : Pwrite(r, i) \/ SaveBb(r, i)
          \/ SaveBegins(r) \/ SaveThrows(r) \/ SaveMetadata(r)
          \/ Load(r)
    \/ \E i \in Inos : Open(i)
    \/ Crash

Spec == Init /\ [][Next]_vars

-----------------------------------------------------------------------------
(* Properties. *)

Intact(p) == ring[p[1]][p[2]] = Data(p[1], p[3])

\* A store that loads after a crash gets what its last completed save had
\* (bb_store::save and bb_store::load of bb.hpp),
\* whatever that rank did after it (further writes, a save that failed or was
\* cut short), unless the crash tore the metadata.
LoadRestores ==
    [][\A r \in Ranks :
          Load(r) /\ ~ torn[r] /\ meta[r].size > 0 =>
              pc'[r] = "idle" /\ store'[r] = saved[r]]_vars

\* What a rank's indices say of its own ring is there, before and after any
\* number of crashes: nothing that is saved or in use is overwritten.
\* The same holds of all rings, as long as at each crash the snapshots fit
\* together: each was completed after the writes of others that it points at
\* had become part of the snapshots of those others (bb_store::save and
\* bb_store::load of bb.hpp).
BytesIntact ==
    \A r \in Ranks : pc[r] \in {"idle", "save"} =>
        \A p \in Pointers(store[r]) : p[1] = r \/ sound => Intact(p)

=============================================================================
