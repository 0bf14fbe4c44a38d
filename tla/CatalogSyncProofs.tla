-------------------------- MODULE CatalogSyncProofs --------------------------
(***************************************************************************)
(* Proofs about CatalogSync for any columns, targets and command line      *)
(* processes, and any number of writes and observations.                   *)
(***************************************************************************)
EXTENDS CatalogSync, TLAPS

(* What the file holds was published.                                      *)
DiskPublished == \A t \in Targets : disk.uses[t] <= published[t]

(* Once a flush has renamed its file, all of memory was published.         *)
RestatPublished ==
  srv = "restat" => \A t \in Targets : memory.uses[t] <= published[t]

(* No mtime the server remembers lies ahead of the file's.                 *)
MtimesArePast ==
  /\ lastMtime <= mtime
  /\ stat <= mtime
  /\ srv \in {"read", "restat"} => mtime > 0

(* Before the first write nobody has a verdict.                            *)
NoFileNoVerdict ==
  mtime = 0 => disk.human = EmptyCatalog.human /\ memory.human = EmptyCatalog.human

(* A file whose mtime is the one the server remembers, or that a flush has *)
(* just renamed, has the verdicts of memory, unless a save went unnoticed. *)
KnownMtimeIsKnown ==
  (lastMtime = mtime /\ mtime > 0) \/ srv = "restat" =>
    blind \/ memory.human = disk.human

(* The verdicts refresh is about to read are among those seen.             *)
ReadSeesDisk == srv = "read" => disk.human \in seen

(* What flush has read is still in the file, unless a save overtook it.    *)
WriteIsFresh == srv = "write" => overtaken \/ read.human = disk.human

(***************************************************************************)
(* The inductive invariant.  Its parts about mtimes say what the server    *)
(* relies on when it does not read a file again.                           *)
(***************************************************************************)
PublishedInv ==
  DiskPublished /\ RestatPublished /\ CleanIsPublished /\ ShutdownFlushes
VerdictInv ==
  /\ MtimesArePast /\ NoFileNoVerdict /\ KnownMtimeIsKnown
  /\ ReadSeesDisk /\ WriteIsFresh /\ QueriesSeeVerdicts
Inv == TypeOK /\ PublishedInv /\ VerdictInv

(* The catalog of a missing file is a catalog.                             *)
LEMMA EmptyIsContent == EmptyCatalog \in Content
BY MaxUsesAssumption DEF EmptyCatalog, Content, Human, Uses, Verdicts

(* Sections put over others are sections.                                  *)
LEMMA OverlayType ==
  ASSUME NEW base \in Uses, NEW own \in Uses, NEW ids
  PROVE  Overlay(base, own, ids) \in Uses
BY DEF Overlay, Uses

(* The larger of two numbers of observations bounds both.                  *)
LEMMA AtLeastBounds ==
  ASSUME NEW u \in Uses, NEW v \in Uses
  PROVE  /\ AtLeast(u, v) \in Uses
         /\ \A t \in Targets : u[t] <= AtLeast(u, v)[t] /\ v[t] <= AtLeast(u, v)[t]
BY MaxUsesAssumption DEF AtLeast, Uses

(* A rename publishes what it puts into the file, and forgets nothing that *)
(* was published before.                                                   *)
LEMMA RenamePublishes ==
  ASSUME TypeOK, NEW content \in Content, Rename(content)
  PROVE  /\ disk' = content /\ disk' \in Content
         /\ mtime' = mtime + 1 /\ mtime' \in 0 .. MaxWrites
         /\ published' \in Uses
         /\ \A t \in Targets :
              disk'.uses[t] <= published'[t] /\ published[t] <= published'[t]
<1>1. content.uses \in Uses /\ published \in Uses
  BY DEF TypeOK, Content
<1> QED
  BY <1>1, AtLeastBounds, MaxWritesAssumption DEF Rename, TypeOK

(* What a flush is about to write.                                         *)
Flushed == [human |-> read.human, uses |-> Overlay(read.uses, memory.uses, dirty)]

(* A flush writes a catalog.                                               *)
LEMMA FlushedType == TypeOK => Flushed \in Content
BY OverlayType DEF TypeOK, Content, Flushed

(* The server starts in the invariant.                                     *)
LEMMA InitInv == Init => Inv
<1> SUFFICES ASSUME Init PROVE Inv
  OBVIOUS
<1>1. EmptyCatalog.uses \in Uses /\ EmptyCatalog.human \in Human
  BY EmptyIsContent DEF Content
<1>2. TypeOK
  <2>1. /\ disk \in Content /\ memory \in Content /\ read \in Content
        /\ copy \in [Clis -> Content] /\ published \in Uses
    BY EmptyIsContent, <1>1 DEF Init
  <2>2. /\ mtime \in 0 .. MaxWrites /\ lastMtime \in 0 .. MaxWrites
        /\ stat \in 0 .. MaxWrites
    BY MaxWritesAssumption DEF Init
  <2> QED
    BY <2>1, <2>2 DEF Init, TypeOK, ServerState
<1>3. PublishedInv
  BY <1>1 DEF Init, PublishedInv, DiskPublished, RestatPublished, CleanIsPublished,
              ShutdownFlushes, EmptyCatalog
<1>4. VerdictInv
  BY DEF Init, VerdictInv, MtimesArePast, NoFileNoVerdict, KnownMtimeIsKnown,
         ReadSeesDisk, WriteIsFresh, QueriesSeeVerdicts
<1> QED
  BY <1>2, <1>3, <1>4 DEF Inv

----------------------------------------------------------------------------

(* Every variable keeps its type.                                          *)
LEMMA TypeStep == TypeOK /\ [Next]_vars => TypeOK'
<1> SUFFICES ASSUME TypeOK, [Next]_vars PROVE TypeOK'
  OBVIOUS
<1> USE MaxWritesAssumption DEF TypeOK
<1>1. CASE RefreshStat
  BY <1>1 DEF RefreshStat, files, ServerState, Content
<1>2. CASE RefreshRead
  <2>1. memory' \in Content
    BY <1>2, OverlayType DEF RefreshRead, Content
  <2>2. UNCHANGED <<dirty, throttled, forced, overtaken>> /\ failed' \in BOOLEAN
        /\ blind' \in BOOLEAN
    BY <1>2 DEF RefreshRead
  <2>3. UNCHANGED <<disk, mtime, cli, copy, read, seen, published>>
        /\ lastMtime' \in 0 .. MaxWrites /\ stat' \in 0 .. MaxWrites
        /\ srv' \in ServerState
    BY <1>2 DEF RefreshRead, files, ServerState
  <2> QED
    BY <2>1, <2>2, <2>3
<1>3. CASE RefreshFails
  BY <1>3, MaxWritesAssumption DEF RefreshFails, files, history, ServerState
<1>4. CASE RecordNothing
  BY <1>4 DEF RecordNothing, files, ServerState
<1>5. ASSUME NEW t \in Targets, Record(t) PROVE TypeOK'
  <2> DEFINE uses == [memory.uses EXCEPT ![t] = @ + 1]
  <2>1. memory' = [memory EXCEPT !.uses = uses]
    BY <1>5 DEF Record
  <2>2. memory.uses \in Uses /\ memory.uses[t] + 1 \in 0 .. MaxUses
    BY <1>5, MaxUsesAssumption DEF Record, Content, Uses
  <2>3. uses \in Uses
    BY <2>2 DEF Uses
  <2>4. memory' \in Content
    BY <2>1, <2>3 DEF Content
  <2> QED
    BY <1>5, <2>4 DEF Record, files, ServerState
<1>6. CASE ThrottleElapses
  BY <1>6 DEF ThrottleElapses, files, history
<1>7. CASE FlushRead
  BY <1>7 DEF FlushRead, files, history, ServerState
<1>8. CASE FlushWrite
  <2>1. Rename(Flushed) /\ memory' \in Content
    BY <1>8 DEF FlushWrite, Flushed, Content
  <2>2. disk' \in Content /\ mtime' \in 0 .. MaxWrites /\ published' \in Uses
    BY <2>1, FlushedType, RenamePublishes
  <2> QED
    BY <1>8, <2>1, <2>2 DEF FlushWrite, ServerState
<1>9. CASE FlushStat
  BY <1>9, EmptyIsContent DEF FlushStat, AfterFlush, files, ServerState
<1>10. CASE FlushFails
  <2>1. UNCHANGED <<throttled, forced, blind, dirty>> /\ failed' \in BOOLEAN
        /\ overtaken' \in BOOLEAN
    BY <1>10 DEF FlushFails
  <2>2. srv' \in ServerState
    BY <1>10 DEF FlushFails, AfterFlush, ServerState
  <2>3. UNCHANGED <<disk, mtime, cli, copy, memory, lastMtime, stat, seen, published>>
        /\ read' \in Content
    BY <1>10, EmptyIsContent DEF FlushFails, files
  <2> QED
    BY <2>1, <2>2, <2>3
<1>11. CASE FlushAll
  BY <1>11 DEF FlushAll, files, history, ServerState
<1>12. CASE FlushAllReturns
  BY <1>12 DEF FlushAllReturns, files, history, ServerState
<1>13. CASE Crash
  <2>1. UNCHANGED <<disk, mtime, cli, copy, published>> /\ srv' \in ServerState
    BY <1>13 DEF Crash, files, ServerState
  <2>2. /\ memory' \in Content /\ read' \in Content /\ seen' \in SUBSET Human
        /\ lastMtime' \in 0 .. MaxWrites /\ stat' \in 0 .. MaxWrites
        /\ dirty' \in SUBSET Targets
    BY <1>13, EmptyIsContent DEF Crash
  <2>3. /\ throttled' \in BOOLEAN /\ failed' \in BOOLEAN /\ forced' \in BOOLEAN
        /\ overtaken' \in BOOLEAN /\ blind' \in BOOLEAN
    BY <1>13 DEF Crash
  <2> QED
    BY <2>1, <2>2, <2>3
<1>14. CASE Restart
  BY <1>14 DEF Restart, files, history, ServerState
<1>15. ASSUME NEW k \in Clis, CliLoad(k) PROVE TypeOK'
  BY <1>15 DEF CliLoad, server, history
<1>16. ASSUME NEW k \in Clis, CliSave(k) PROVE TypeOK'
  <2>1. PICK c \in Columns, v \in Verdicts : Rename([copy[k] EXCEPT !.human[c] = v])
    BY <1>16 DEF CliSave
  <2>2. [copy[k] EXCEPT !.human[c] = v] \in Content
    BY DEF Content, Human
  <2>3. disk' \in Content /\ mtime' \in 0 .. MaxWrites /\ published' \in Uses
    BY <2>1, <2>2, RenamePublishes
  <2>4. seen' \in SUBSET Human
    BY <1>16, <2>3 DEF CliSave, Content
  <2> QED
    BY <1>16, <2>3, <2>4, EmptyIsContent DEF CliSave, server, ServerState
<1>17. CASE UNCHANGED vars
  BY <1>17 DEF vars, server, history
<1> QED
  BY <1>1, <1>2, <1>3, <1>4, <1>5, <1>6, <1>7, <1>8, <1>9, <1>10, <1>11, <1>12,
     <1>13, <1>14, <1>15, <1>16, <1>17 DEF Next, ServerNext, CliNext

(* What the server counts as written stays written.                        *)
LEMMA PublishedStep == Inv /\ [Next]_vars => PublishedInv'
<1> SUFFICES ASSUME Inv, [Next]_vars PROVE PublishedInv'
  OBVIOUS
<1>0. TypeOK /\ TypeOK' /\ PublishedInv
  BY TypeStep DEF Inv
<1> USE DEF PublishedInv, DiskPublished, RestatPublished, CleanIsPublished, ShutdownFlushes
<1>1. CASE RefreshStat
  BY <1>0, <1>1 DEF RefreshStat, files
<1>2. CASE RefreshRead
  <2>1. \A t \in Targets :
          memory'.uses[t] = IF t \in dirty THEN memory.uses[t] ELSE disk.uses[t]
    BY <1>2 DEF RefreshRead, Overlay
  <2> QED
    BY <1>0, <1>2, <2>1 DEF RefreshRead, files
<1>3. CASE RefreshFails
  BY <1>0, <1>3 DEF RefreshFails, files, history
<1>4. CASE RecordNothing
  BY <1>0, <1>4 DEF RecordNothing, files
<1>5. ASSUME NEW t \in Targets, Record(t) PROVE PublishedInv'
  <2>1. \A u \in Targets \ {t} : memory'.uses[u] = memory.uses[u]
    BY <1>0, <1>5 DEF Record, TypeOK, Content, Uses
  <2> QED
    BY <1>0, <1>5, <2>1 DEF Record, files
<1>6. CASE ThrottleElapses
  BY <1>0, <1>6 DEF ThrottleElapses, files, history
<1>7. CASE FlushRead
  BY <1>0, <1>7 DEF FlushRead, files, history
<1>8. CASE FlushWrite
  <2>1. Rename(Flushed) /\ srv' = "restat" /\ dirty' = dirty
        /\ memory' = [memory EXCEPT !.human = read.human]
    BY <1>8 DEF FlushWrite, Flushed
  <2>2. /\ disk' = Flushed
        /\ \A t \in Targets :
             disk'.uses[t] <= published'[t] /\ published[t] <= published'[t]
    BY <2>1, <1>0, FlushedType, RenamePublishes
  <2>3. memory'.uses = memory.uses
    BY <2>1, <1>0 DEF TypeOK, Content
  <2>4. \A t \in Targets : memory'.uses[t] <= published'[t]
    <3> SUFFICES ASSUME NEW t \in Targets PROVE memory.uses[t] <= published'[t]
      BY <2>3
    <3>1. CASE t \in dirty
      <4>1. disk'.uses[t] = memory.uses[t]
        BY <2>2, <3>1 DEF Flushed, Overlay
      <4> QED
        BY <4>1, <2>2
    <3>2. CASE t \notin dirty
      <4>1. memory.uses[t] <= published[t]
        BY <3>2, <1>0
      <4>2. /\ memory.uses[t] \in Nat /\ published[t] \in Nat /\ published'[t] \in Nat
        BY <1>0, MaxUsesAssumption DEF TypeOK, Content, Uses
      <4> QED
        BY <4>1, <4>2, <2>2
    <3> QED
      BY <3>1, <3>2
  <2> QED
    BY <2>1, <2>2, <2>4
<1>9. CASE FlushStat
  BY <1>0, <1>9 DEF FlushStat, files
<1>10. CASE FlushFails
  BY <1>0, <1>10 DEF FlushFails, files, AfterFlush
<1>11. CASE FlushAll
  BY <1>0, <1>11 DEF FlushAll, files, history
<1>12. CASE FlushAllReturns
  BY <1>0, <1>12 DEF FlushAllReturns, files, history
<1>13. CASE Crash
  <2>1. \A t \in Targets : memory'.uses[t] = 0
    BY <1>13 DEF Crash, EmptyCatalog
  <2>2. \A t \in Targets : published[t] \in Nat
    BY <1>0, MaxUsesAssumption DEF TypeOK, Uses
  <2> QED
    BY <1>0, <1>13, <2>1, <2>2 DEF Crash, files
<1>14. CASE Restart
  BY <1>0, <1>14 DEF Restart, files, history
<1>15. ASSUME NEW k \in Clis, CliLoad(k) PROVE PublishedInv'
  BY <1>0, <1>15 DEF CliLoad, server, history
<1>16. ASSUME NEW k \in Clis, CliSave(k) PROVE PublishedInv'
  <2>1. PICK c \in Columns, v \in Verdicts : Rename([copy[k] EXCEPT !.human[c] = v])
    BY <1>16 DEF CliSave
  <2>2. [copy[k] EXCEPT !.human[c] = v] \in Content
    BY <1>0 DEF TypeOK, Content, Human
  <2>3. \A t \in Targets :
          disk'.uses[t] <= published'[t] /\ published[t] <= published'[t]
    BY <2>1, <2>2, <1>0, RenamePublishes
  <2>4. UNCHANGED <<memory, dirty, failed, srv>>
    BY <1>16 DEF CliSave, server
  <2>5. \A t \in Targets :
          memory.uses[t] \in Nat /\ published[t] \in Nat /\ published'[t] \in Nat
    BY <1>0, MaxUsesAssumption DEF TypeOK, Content, Uses
  <2> QED
    BY <1>0, <2>3, <2>4, <2>5
<1>17. CASE UNCHANGED vars
  BY <1>0, <1>17 DEF vars, server, history
<1> QED
  BY <1>1, <1>2, <1>3, <1>4, <1>5, <1>6, <1>7, <1>8, <1>9, <1>10, <1>11, <1>12,
     <1>13, <1>14, <1>15, <1>16, <1>17 DEF Next, ServerNext, CliNext

(* What the server believes of the verdicts in the file stays right.       *)
LEMMA VerdictStep == Inv /\ [Next]_vars => VerdictInv'
<1> SUFFICES ASSUME Inv, [Next]_vars PROVE VerdictInv'
  OBVIOUS
<1>0. TypeOK /\ TypeOK' /\ VerdictInv
  BY TypeStep DEF Inv
<1>a. /\ mtime \in Nat /\ lastMtime \in Nat /\ stat \in Nat
      /\ mtime' \in Nat /\ lastMtime' \in Nat /\ stat' \in Nat
  BY <1>0, MaxWritesAssumption DEF TypeOK
<1> USE DEF VerdictInv, MtimesArePast, NoFileNoVerdict, KnownMtimeIsKnown,
            ReadSeesDisk, WriteIsFresh, QueriesSeeVerdicts
<1>1. CASE RefreshStat
  <2>1. srv' = "decide" => blind \/ memory.human = disk.human
    BY <1>0, <1>a, <1>1 DEF RefreshStat
  <2> QED
    BY <1>0, <1>a, <1>1, <2>1 DEF RefreshStat, files
<1>2. CASE RefreshRead
  <2>1. memory'.human = disk.human
    BY <1>2 DEF RefreshRead
  <2> QED
    BY <1>0, <1>a, <1>2, <2>1 DEF RefreshRead, files
<1>3. CASE RefreshFails
  BY <1>0, <1>a, <1>3 DEF RefreshFails, files, history
<1>4. CASE RecordNothing
  BY <1>0, <1>a, <1>4 DEF RecordNothing, files
<1>5. ASSUME NEW t \in Targets, Record(t) PROVE VerdictInv'
  <2>1. memory'.human = memory.human
    BY <1>0, <1>5 DEF Record, TypeOK, Content
  <2> QED
    BY <1>0, <1>a, <1>5, <2>1 DEF Record, files
<1>6. CASE ThrottleElapses
  BY <1>0, <1>a, <1>6 DEF ThrottleElapses, files, history
<1>7. CASE FlushRead
  BY <1>0, <1>a, <1>7 DEF FlushRead, files, history
<1>8. CASE FlushWrite
  <2>1. /\ Rename(Flushed) /\ srv' = "restat"
        /\ memory' = [memory EXCEPT !.human = read.human]
        /\ UNCHANGED <<lastMtime, stat, seen, overtaken>>
    BY <1>8 DEF FlushWrite, Flushed
  <2>2. disk' = Flushed /\ mtime' = mtime + 1
    BY <2>1 DEF Rename
  <2>3. memory'.human = read.human /\ disk'.human = read.human
    BY <2>1, <2>2, <1>0 DEF TypeOK, Content, Flushed
  <2> QED
    BY <1>0, <1>a, <2>1, <2>2, <2>3
<1>9. CASE FlushStat
  BY <1>0, <1>a, <1>9 DEF FlushStat, files, AfterFlush
<1>10. CASE FlushFails
  BY <1>0, <1>a, <1>10 DEF FlushFails, files, AfterFlush
<1>11. CASE FlushAll
  BY <1>0, <1>a, <1>11 DEF FlushAll, files, history
<1>12. CASE FlushAllReturns
  BY <1>0, <1>a, <1>12 DEF FlushAllReturns, files, history
<1>13. CASE Crash
  BY <1>0, <1>a, <1>13 DEF Crash, files
<1>14. CASE Restart
  BY <1>0, <1>a, <1>14 DEF Restart, files, history
<1>15. ASSUME NEW k \in Clis, CliLoad(k) PROVE VerdictInv'
  BY <1>0, <1>a, <1>15 DEF CliLoad, server, history
<1>16. ASSUME NEW k \in Clis, CliSave(k) PROVE VerdictInv'
  <2>1. mtime' = mtime + 1
    BY <1>16 DEF CliSave, Rename
  <2>2. UNCHANGED <<memory, lastMtime, srv, stat, read>>
    BY <1>16 DEF CliSave, server
  <2>3. /\ seen' = IF srv \in {"read", "decide", "unread"}
                   THEN seen \cup {disk'.human} ELSE seen
        /\ srv = "write" => overtaken'
        /\ srv = "restat" => blind'
        /\ blind => blind'
    BY <1>16 DEF CliSave
  <2>4. MtimesArePast' /\ NoFileNoVerdict'
    BY <1>0, <1>a, <2>1, <2>2
  <2>5. KnownMtimeIsKnown'
    BY <1>0, <1>a, <2>1, <2>2, <2>3
  <2>6. ReadSeesDisk' /\ WriteIsFresh' /\ QueriesSeeVerdicts'
    BY <1>0, <2>2, <2>3
  <2> QED
    BY <2>4, <2>5, <2>6
<1>17. CASE UNCHANGED vars
  BY <1>0, <1>17 DEF vars, server, history
<1> QED
  BY <1>1, <1>2, <1>3, <1>4, <1>5, <1>6, <1>7, <1>8, <1>9, <1>10, <1>11, <1>12,
     <1>13, <1>14, <1>15, <1>16, <1>17 DEF Next, ServerNext, CliNext

----------------------------------------------------------------------------

(* The invariant holds in every behaviour.                                 *)
THEOREM Invariance == Spec => []Inv
<1>1. Inv /\ [Next]_vars => Inv'
  BY TypeStep, PublishedStep, VerdictStep DEF Inv
<1> QED
  BY InitInv, <1>1, PTL DEF Spec

(* Every variable has its type, however many processes share the file.     *)
THEOREM TypeCorrect == Spec => []TypeOK
BY Invariance, PTL DEF Inv

(* A section the server holds to be written is in no newer a state than    *)
(* one the file has held.                                                  *)
THEOREM Published == Spec => []CleanIsPublished
BY Invariance, PTL DEF Inv, PublishedInv

(* flushAllCatalogs leaves nothing to write, or reports its failure.       *)
THEOREM ShutdownCorrect == Spec => []ShutdownFlushes
BY Invariance, PTL DEF Inv, PublishedInv

(* A query masks by verdicts the file held since the query refreshed the   *)
(* catalog, unless a save fell between the last flush's rename and stat.   *)
THEOREM VerdictsSeen == Spec => []QueriesSeeVerdicts
BY Invariance, PTL DEF Inv, VerdictInv

(* No step of the server changes a human verdict of the file, unless a     *)
(* save fell between a flush's read and its rename.                        *)
THEOREM FlushKeeps == Spec => FlushKeepsVerdicts
<1>1. Inv /\ [Next]_vars =>
        [disk'.human # disk.human => (\E k \in Clis : cli'[k] # cli[k]) \/ overtaken]_vars
  <2> SUFFICES ASSUME Inv, Next, disk'.human # disk.human
               PROVE  (\E k \in Clis : cli'[k] # cli[k]) \/ overtaken
    OBVIOUS
  <2>1. CASE ServerNext
    <3>1. FlushWrite
      BY <2>1 DEF ServerNext, RefreshStat, RefreshRead, RefreshFails, RecordNothing,
           Record, ThrottleElapses, FlushRead, FlushStat, FlushFails, FlushAll,
           FlushAllReturns, Crash, Restart, files
    <3>2. disk'.human = read.human /\ srv = "write"
      BY <3>1 DEF FlushWrite, Rename
    <3> QED
      BY <3>2 DEF Inv, VerdictInv, WriteIsFresh
  <2>2. CASE CliNext
    <3>1. PICK k \in Clis : CliSave(k)
      BY <2>2 DEF CliNext, CliLoad
    <3>2. cli[k] = "editing" /\ cli' = [cli EXCEPT ![k] = "idle"]
      BY <3>1 DEF CliSave
    <3>3. cli'[k] # cli[k]
      BY <3>2 DEF Inv, TypeOK
    <3> QED
      BY <3>3
  <2> QED
    BY <2>1, <2>2 DEF Next
<1> QED
  BY <1>1, Invariance, PTL DEF Spec, FlushKeepsVerdicts

(* No observation that has yet to be written is forgotten, but by the end  *)
(* of the process.                                                         *)
THEOREM Unwritten == Spec => UnwrittenIsKept
<1>1. Inv /\ [Next]_vars =>
        [srv' # "down" => \A t \in dirty : memory'.uses[t] >= memory.uses[t]]_vars
  <2> SUFFICES ASSUME Inv, Next, srv' # "down", NEW t \in dirty
               PROVE  memory'.uses[t] >= memory.uses[t]
    OBVIOUS
  <2>1. t \in Targets /\ memory \in Content /\ memory.uses[t] \in Nat
    BY MaxUsesAssumption DEF Inv, TypeOK, Content, Uses
  <2>2. CASE RefreshRead
    BY <2>1, <2>2 DEF RefreshRead, Overlay
  <2>3. ASSUME NEW u \in Targets, Record(u) PROVE memory'.uses[t] >= memory.uses[t]
    <3>1. memory'.uses[t] = IF t = u THEN memory.uses[t] + 1 ELSE memory.uses[t]
      BY <2>1, <2>3 DEF Record, Content, Uses
    <3> QED
      BY <2>1, <3>1
  <2>4. CASE FlushWrite
    <3>1. memory'.uses = memory.uses
      BY <2>1, <2>4 DEF FlushWrite, Content
    <3> QED
      BY <2>1, <3>1
  <2>5. CASE memory' = memory
    BY <2>1, <2>5
  <2> QED
    BY <2>2, <2>3, <2>4, <2>5
       DEF Next, ServerNext, CliNext, RefreshStat, RefreshFails, RecordNothing,
           ThrottleElapses, FlushRead, FlushStat, FlushFails, FlushAll, FlushAllReturns,
           Crash, Restart, CliLoad, CliSave, files, server
<1> QED
  BY <1>1, Invariance, PTL DEF Spec, UnwrittenIsKept

=============================================================================
