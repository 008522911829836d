---------------------------- MODULE NativeProofs ----------------------------
(***************************************************************************)
(* Theorems about four parts of the native library that share no state,    *)
(* checked by TLAPS: the directory cursor, for every set of processes and  *)
(* descriptors, every size of the directory and of a batch; the scan of a  *)
(* directory, for every contents, sizes of buffers and first capacities;   *)
(* the cleanup of stores, for every finite set of them; the decoders of a  *)
(* record, for every selection of fields.                                  *)
(***************************************************************************)
EXTENDS DirectoryCursor, DirectoryScan, StoreCleanup, RecordDecoder, FoldLemmas

(* DirectoryCursor *)

\* What the lock and the handles protect: only the process inside the system
\* call holds the lock, nobody closes the descriptor under it, and a call needs
\* a handle, which needs a live cursor.
Protected ==
    /\ \A p \in Processes : at[p] = "reading" <=> lock = p
    /\ \A p \in Processes : at[p] # "idle" => p \in holders
    /\ holders # {} => resource = "live"
    /\ lock # NULL => fd # NULL /\ ~ exhausted

\* The mark of exhaustion, while the cursor is open, means the end; a buffer
\* holds entries only while they are decoded.
MarksAreTrue ==
    /\ resource \in {"none", "opened"} => ~ exhausted
    /\ exhausted /\ fd # NULL => position = EntryCount
    /\ \A p \in Processes : at[p] # "decoding" => batch[p] = {}

\* Directory.list keeps the handle to itself and stops at the first error.
ListStops ==
    listing =>
      /\ holders \subseteq {Opener}
      /\ \A p \in Processes \ {Opener} : received[p] = {} /\ batch[p] = {}
      /\ at[Opener] # "idle" => answer[Opener] \in {"none", "batch"}
      /\ answer[Opener] \in {"none", "batch", "done"} => lost = {}

\* What is with one process is with no other, and nowhere twice.
Disjoint ==
    \A p \in Processes :
       /\ received[p] \cap batch[p] = {} /\ Has(p) \cap lost = {}
       /\ \A q \in Processes \ {p} : Has(p) \cap Has(q) = {}

\* All that the kernel has handed out is somewhere, and nothing else is.
Accounted ==
    \A n \in 1 .. EntryCount :
       n <= position <=> n \in lost \/ \E p \in Processes : n \in Has(p)

DoneAtTheEnd == \A p \in Processes : answer[p] = "done" => position = EntryCount

Inv == /\ TypeOK /\ DescriptorsStayOurs /\ Protected /\ MarksAreTrue /\ ListStops
       /\ Disjoint /\ Accounted /\ DoneAtTheEnd
-----------------------------------------------------------------------------
\* Types are kept; a batch lies within the directory.
LEMMA TypeStep ==
    ASSUME Inv, [Next]_vars
    PROVE  TypeOK'
<1>1. CASE OpenPath
  BY <1>1 DEF Inv, TypeOK, Answers, OpenPath, calls
<1>2. CASE MakeCursor
  BY <1>2, CountAssumption, OpenerAssumption DEF Inv, TypeOK, Answers, MakeCursor,
       CloseCursor, calls
<1>3. CASE Destruct
  BY <1>3 DEF Inv, TypeOK, Answers, Destruct, CloseCursor, calls
<1>4. ASSUME NEW p \in Processes, Share(p) PROVE TypeOK'
  BY <1>4 DEF Inv, TypeOK, Answers, Share, cursor, calls
<1>5. ASSUME NEW p \in Processes, DropHandle(p) PROVE TypeOK'
  BY <1>5 DEF Inv, TypeOK, Answers, DropHandle, cursor, calls
<1>6. ASSUME NEW p \in Processes, Close(p) PROVE TypeOK'
  BY <1>6 DEF Inv, TypeOK, Answers, Close, CloseCursor, calls
<1>7. ASSUME NEW p \in Processes, RefuseNext(p) PROVE TypeOK'
  BY <1>7 DEF Inv, TypeOK, Answers, RefuseNext, Answered, MayRead, cursor
<1>8. ASSUME NEW p \in Processes, StartRead(p) PROVE TypeOK'
  BY <1>8 DEF Inv, TypeOK, Answers, StartRead, MayRead
<1>9. ASSUME NEW p \in Processes, ReadBatch(p) PROVE TypeOK'
  BY <1>9, CountAssumption, OpenerAssumption DEF Inv, TypeOK, Answers, ReadBatch
<1>10. ASSUME NEW p \in Processes, ReadNothing(p) PROVE TypeOK'
  BY <1>10 DEF Inv, TypeOK, Answers, ReadNothing, Answered
<1>11. ASSUME NEW p \in Processes, Decode(p) PROVE TypeOK'
  <2>1. /\ answer' \in [Processes -> Answers] /\ received' \in [Processes -> SUBSET (1 .. EntryCount)]
        /\ lost' \subseteq 1 .. EntryCount
    BY SMTT(10), ZenonT(60), <1>11 DEF Inv, TypeOK, Answers, Decode, Answered
  <2>2. /\ at' \in [Processes -> {"idle", "reading", "decoding"}]
        /\ batch' \in [Processes -> SUBSET (1 .. EntryCount)]
    BY <1>11 DEF Inv, TypeOK, Decode
  <2>3. UNCHANGED <<files, foreign, cursor, position, holders>>
    BY <1>11 DEF Decode
  <2> QED BY <2>1, <2>2, <2>3 DEF Inv, TypeOK, cursor
<1>12. ASSUME NEW d \in Descriptors, OpenElsewhere(d) PROVE TypeOK'
  BY <1>12 DEF Inv, TypeOK, Answers, OpenElsewhere, cursor, calls
<1>13. ASSUME NEW d \in Descriptors, CloseElsewhere(d) PROVE TypeOK'
  BY <1>13 DEF Inv, TypeOK, Answers, CloseElsewhere, cursor, calls
<1>14. CASE UNCHANGED vars
  BY <1>14 DEF Inv, TypeOK, Answers, vars, cursor, calls
<1> QED
  BY <1>1, <1>2, <1>3, <1>4, <1>5, <1>6, <1>7, <1>8, <1>9, <1>10, <1>11, <1>12,
     <1>13, <1>14 DEF Next, Use

\* The cursor and other code keep out of each other's descriptors.
LEMMA DescriptorsStep ==
    ASSUME Inv, [Next]_vars
    PROVE  DescriptorsStayOurs'
<1>1. CASE OpenPath
  BY <1>1 DEF Inv, DescriptorsStayOurs, TypeOK, OpenPath, calls
<1>2. CASE MakeCursor
  BY <1>2, NULLAssumption DEF Inv, DescriptorsStayOurs, Protected, TypeOK,
       MakeCursor, CloseCursor, calls
<1>3. CASE Destruct
  BY <1>3, NULLAssumption DEF Inv, DescriptorsStayOurs, Protected, TypeOK, Destruct,
       CloseCursor, calls
<1>4. ASSUME NEW p \in Processes, Share(p) PROVE DescriptorsStayOurs'
  BY <1>4 DEF Inv, DescriptorsStayOurs, Share, cursor, calls
<1>5. ASSUME NEW p \in Processes, DropHandle(p) PROVE DescriptorsStayOurs'
  BY <1>5 DEF Inv, DescriptorsStayOurs, DropHandle, cursor, calls
<1>6. ASSUME NEW p \in Processes, Close(p) PROVE DescriptorsStayOurs'
  BY <1>6, NULLAssumption DEF Inv, DescriptorsStayOurs, Protected, TypeOK, Close,
       CloseCursor, calls
<1>7. ASSUME NEW p \in Processes, RefuseNext(p) PROVE DescriptorsStayOurs'
  BY <1>7 DEF Inv, DescriptorsStayOurs, RefuseNext, Answered, MayRead, cursor
<1>8. ASSUME NEW p \in Processes, StartRead(p) PROVE DescriptorsStayOurs'
  BY <1>8 DEF Inv, DescriptorsStayOurs, StartRead, MayRead
<1>9. ASSUME NEW p \in Processes, ReadBatch(p) PROVE DescriptorsStayOurs'
  BY <1>9 DEF Inv, DescriptorsStayOurs, ReadBatch
<1>10. ASSUME NEW p \in Processes, ReadNothing(p) PROVE DescriptorsStayOurs'
  BY <1>10 DEF Inv, DescriptorsStayOurs, ReadNothing, Answered
<1>11. ASSUME NEW p \in Processes, Decode(p) PROVE DescriptorsStayOurs'
  BY <1>11 DEF Inv, DescriptorsStayOurs, Decode, Answered, cursor
<1>12. ASSUME NEW d \in Descriptors, OpenElsewhere(d) PROVE DescriptorsStayOurs'
  BY <1>12 DEF Inv, DescriptorsStayOurs, TypeOK, OpenElsewhere, cursor, calls
<1>13. ASSUME NEW d \in Descriptors, CloseElsewhere(d) PROVE DescriptorsStayOurs'
  BY <1>13 DEF Inv, DescriptorsStayOurs, TypeOK, CloseElsewhere, cursor, calls
<1>14. CASE UNCHANGED vars
  BY <1>14 DEF Inv, DescriptorsStayOurs, vars, cursor, calls
<1> QED
  BY <1>1, <1>2, <1>3, <1>4, <1>5, <1>6, <1>7, <1>8, <1>9, <1>10, <1>11, <1>12,
     <1>13, <1>14 DEF Next, Use

\* Nobody closes or releases the cursor while a process is in the system call.
LEMMA ProtectedStep ==
    ASSUME Inv, [Next]_vars
    PROVE  Protected'
<1>1. CASE OpenPath
  BY <1>1 DEF Inv, Protected, TypeOK, OpenPath, calls
<1>2. CASE MakeCursor
  BY <1>2 DEF Inv, Protected, TypeOK, MakeCursor, CloseCursor, calls
<1>3. CASE Destruct
  BY <1>3 DEF Inv, Protected, Destruct, CloseCursor, calls
<1>4. ASSUME NEW p \in Processes, Share(p) PROVE Protected'
  BY <1>4 DEF Inv, Protected, Share, cursor, calls
<1>5. ASSUME NEW p \in Processes, DropHandle(p) PROVE Protected'
  BY <1>5 DEF Inv, Protected, DropHandle, cursor, calls
<1>6. ASSUME NEW p \in Processes, Close(p) PROVE Protected'
  BY <1>6 DEF Inv, Protected, Close, CloseCursor, calls
<1>7. ASSUME NEW p \in Processes, RefuseNext(p) PROVE Protected'
  BY <1>7 DEF Inv, Protected, RefuseNext, Answered, MayRead, cursor
<1>8. ASSUME NEW p \in Processes, StartRead(p) PROVE Protected'
  BY <1>8, NULLAssumption, OpenerAssumption DEF Inv, Protected, TypeOK, StartRead,
       MayRead
<1>9. ASSUME NEW p \in Processes, ReadBatch(p) PROVE Protected'
  BY <1>9, NULLAssumption, OpenerAssumption DEF Inv, Protected, TypeOK, ReadBatch
<1>10. ASSUME NEW p \in Processes, ReadNothing(p) PROVE Protected'
  BY <1>10, NULLAssumption, OpenerAssumption DEF Inv, Protected, TypeOK,
       ReadNothing, Answered
<1>11. ASSUME NEW p \in Processes, Decode(p) PROVE Protected'
  BY <1>11 DEF Inv, Protected, Decode, Answered, cursor
<1>12. ASSUME NEW d \in Descriptors, OpenElsewhere(d) PROVE Protected'
  BY <1>12 DEF Inv, Protected, OpenElsewhere, cursor, calls
<1>13. ASSUME NEW d \in Descriptors, CloseElsewhere(d) PROVE Protected'
  BY <1>13 DEF Inv, Protected, CloseElsewhere, cursor, calls
<1>14. CASE UNCHANGED vars
  BY <1>14 DEF Inv, Protected, vars, cursor, calls
<1> QED
  BY <1>1, <1>2, <1>3, <1>4, <1>5, <1>6, <1>7, <1>8, <1>9, <1>10, <1>11, <1>12,
     <1>13, <1>14 DEF Next, Use

\* Only a call at the end marks an open cursor as exhausted.
LEMMA MarksStep ==
    ASSUME Inv, [Next]_vars
    PROVE  MarksAreTrue'
<1>1. CASE OpenPath
  BY <1>1 DEF Inv, MarksAreTrue, OpenPath, calls
<1>2. CASE MakeCursor
  BY <1>2 DEF Inv, MarksAreTrue, MakeCursor, CloseCursor, calls
<1>3. CASE Destruct
  BY <1>3 DEF Inv, MarksAreTrue, Destruct, CloseCursor, calls
<1>4. ASSUME NEW p \in Processes, Share(p) PROVE MarksAreTrue'
  BY <1>4 DEF Inv, MarksAreTrue, Share, cursor, calls
<1>5. ASSUME NEW p \in Processes, DropHandle(p) PROVE MarksAreTrue'
  BY <1>5 DEF Inv, MarksAreTrue, DropHandle, cursor, calls
<1>6. ASSUME NEW p \in Processes, Close(p) PROVE MarksAreTrue'
  BY <1>6, NULLAssumption DEF Inv, MarksAreTrue, DescriptorsStayOurs, Protected,
       TypeOK, Close, CloseCursor, calls
<1>7. ASSUME NEW p \in Processes, RefuseNext(p) PROVE MarksAreTrue'
  BY <1>7 DEF Inv, MarksAreTrue, RefuseNext, Answered, MayRead, cursor
<1>8. ASSUME NEW p \in Processes, StartRead(p) PROVE MarksAreTrue'
  BY <1>8 DEF Inv, MarksAreTrue, StartRead, MayRead
<1>9. ASSUME NEW p \in Processes, ReadBatch(p) PROVE MarksAreTrue'
  BY <1>9 DEF Inv, MarksAreTrue, TypeOK, ReadBatch
<1>10. ASSUME NEW p \in Processes, ReadNothing(p) PROVE MarksAreTrue'
  BY <1>10, NULLAssumption DEF Inv, MarksAreTrue, DescriptorsStayOurs, Protected,
       TypeOK, ReadNothing, Answered
<1>11. ASSUME NEW p \in Processes, Decode(p) PROVE MarksAreTrue'
  BY <1>11 DEF Inv, MarksAreTrue, TypeOK, Decode, Answered, cursor
<1>12. ASSUME NEW d \in Descriptors, OpenElsewhere(d) PROVE MarksAreTrue'
  BY <1>12 DEF Inv, MarksAreTrue, OpenElsewhere, cursor, calls
<1>13. ASSUME NEW d \in Descriptors, CloseElsewhere(d) PROVE MarksAreTrue'
  BY <1>13 DEF Inv, MarksAreTrue, CloseElsewhere, cursor, calls
<1>14. CASE UNCHANGED vars
  BY <1>14 DEF Inv, MarksAreTrue, vars, cursor, calls
<1> QED
  BY <1>1, <1>2, <1>3, <1>4, <1>5, <1>6, <1>7, <1>8, <1>9, <1>10, <1>11, <1>12,
     <1>13, <1>14 DEF Next, Use

\* Directory.list never reads after an error, and nobody else reads.
LEMMA ListStep ==
    ASSUME Inv, [Next]_vars
    PROVE  ListStops'
<1>1. CASE OpenPath
  BY <1>1 DEF Inv, ListStops, OpenPath, calls
<1>2. CASE MakeCursor
  BY <1>2 DEF Inv, ListStops, MakeCursor, CloseCursor, calls
<1>3. CASE Destruct
  BY <1>3 DEF Inv, ListStops, Destruct, CloseCursor, calls
<1>4. ASSUME NEW p \in Processes, Share(p) PROVE ListStops'
  BY <1>4 DEF Inv, ListStops, Share, cursor, calls
<1>5. ASSUME NEW p \in Processes, DropHandle(p) PROVE ListStops'
  BY <1>5 DEF Inv, ListStops, DropHandle, cursor, calls
<1>6. ASSUME NEW p \in Processes, Close(p) PROVE ListStops'
  BY <1>6 DEF Inv, ListStops, Close, CloseCursor, calls
<1>7. ASSUME NEW p \in Processes, RefuseNext(p) PROVE ListStops'
  BY <1>7 DEF Inv, ListStops, RefuseNext, Answered, MayRead, cursor
<1>8. ASSUME NEW p \in Processes, StartRead(p) PROVE ListStops'
  BY <1>8 DEF Inv, ListStops, StartRead, MayRead
<1>9. ASSUME NEW p \in Processes, ReadBatch(p) PROVE ListStops'
  BY <1>9, NULLAssumption, OpenerAssumption DEF Inv, ListStops, MarksAreTrue,
       Protected, TypeOK, ReadBatch
<1>10. ASSUME NEW p \in Processes, ReadNothing(p) PROVE ListStops'
  BY <1>10, NULLAssumption, OpenerAssumption DEF Inv, ListStops, TypeOK,
       ReadNothing, Answered
<1>11. ASSUME NEW p \in Processes, Decode(p) PROVE ListStops'
  BY SMTT(10), ZenonT(60), <1>11, NULLAssumption, OpenerAssumption DEF Inv, ListStops, MarksAreTrue,
       Protected, TypeOK, Decode, Answered, cursor
<1>12. ASSUME NEW d \in Descriptors, OpenElsewhere(d) PROVE ListStops'
  BY <1>12 DEF Inv, ListStops, OpenElsewhere, cursor, calls
<1>13. ASSUME NEW d \in Descriptors, CloseElsewhere(d) PROVE ListStops'
  BY <1>13 DEF Inv, ListStops, CloseElsewhere, cursor, calls
<1>14. CASE UNCHANGED vars
  BY <1>14 DEF Inv, ListStops, vars, cursor, calls
<1> QED
  BY <1>1, <1>2, <1>3, <1>4, <1>5, <1>6, <1>7, <1>8, <1>9, <1>10, <1>11, <1>12,
     <1>13, <1>14 DEF Next, Use

\* A batch starts after all that has been handed out before.
LEMMA DisjointStep ==
    ASSUME Inv, [Next]_vars
    PROVE  Disjoint'
<1>1. CASE OpenPath
  BY <1>1 DEF Inv, Disjoint, Has, OpenPath, calls
<1>2. CASE MakeCursor
  BY <1>2 DEF Inv, Disjoint, Has, MakeCursor, CloseCursor, calls
<1>3. CASE Destruct
  BY <1>3 DEF Inv, Disjoint, Has, Destruct, CloseCursor, calls
<1>4. ASSUME NEW p \in Processes, Share(p) PROVE Disjoint'
  BY <1>4 DEF Inv, Disjoint, Has, Share, cursor, calls
<1>5. ASSUME NEW p \in Processes, DropHandle(p) PROVE Disjoint'
  BY <1>5 DEF Inv, Disjoint, Has, DropHandle, cursor, calls
<1>6. ASSUME NEW p \in Processes, Close(p) PROVE Disjoint'
  BY <1>6 DEF Inv, Disjoint, Has, Close, CloseCursor, calls
<1>7. ASSUME NEW p \in Processes, RefuseNext(p) PROVE Disjoint'
  BY <1>7 DEF Inv, Disjoint, Has, RefuseNext, Answered, MayRead, cursor
<1>8. ASSUME NEW p \in Processes, StartRead(p) PROVE Disjoint'
  BY <1>8 DEF Inv, Disjoint, Has, StartRead, MayRead
<1>9. ASSUME NEW p \in Processes, ReadBatch(p) PROVE Disjoint'
  BY <1>9, CountAssumption, NULLAssumption DEF Inv, Disjoint, Accounted,
       MarksAreTrue, TypeOK, Has, ReadBatch
<1>10. ASSUME NEW p \in Processes, ReadNothing(p) PROVE Disjoint'
  BY <1>10 DEF Inv, Disjoint, Has, ReadNothing, Answered
<1>11. ASSUME NEW p \in Processes, Decode(p) PROVE Disjoint'
  BY <1>11 DEF Inv, Disjoint, TypeOK, Has, Decode, Answered, cursor
<1>12. ASSUME NEW d \in Descriptors, OpenElsewhere(d) PROVE Disjoint'
  BY <1>12 DEF Inv, Disjoint, Has, OpenElsewhere, cursor, calls
<1>13. ASSUME NEW d \in Descriptors, CloseElsewhere(d) PROVE Disjoint'
  BY <1>13 DEF Inv, Disjoint, Has, CloseElsewhere, cursor, calls
<1>14. CASE UNCHANGED vars
  BY <1>14 DEF Inv, Disjoint, Has, vars, cursor, calls
<1> QED
  BY <1>1, <1>2, <1>3, <1>4, <1>5, <1>6, <1>7, <1>8, <1>9, <1>10, <1>11, <1>12,
     <1>13, <1>14 DEF Next, Use

\* Entries move from the kernel to a buffer, and from there to a reader or to the
\* lost ones.
LEMMA AccountedStep ==
    ASSUME Inv, [Next]_vars
    PROVE  Accounted'
<1>1. CASE OpenPath
  BY <1>1 DEF Inv, Accounted, Has, OpenPath, calls
<1>2. CASE MakeCursor
  BY <1>2 DEF Inv, Accounted, Has, MakeCursor, CloseCursor, calls
<1>3. CASE Destruct
  BY <1>3 DEF Inv, Accounted, Has, Destruct, CloseCursor, calls
<1>4. ASSUME NEW p \in Processes, Share(p) PROVE Accounted'
  BY <1>4 DEF Inv, Accounted, Has, Share, cursor, calls
<1>5. ASSUME NEW p \in Processes, DropHandle(p) PROVE Accounted'
  BY <1>5 DEF Inv, Accounted, Has, DropHandle, cursor, calls
<1>6. ASSUME NEW p \in Processes, Close(p) PROVE Accounted'
  BY <1>6 DEF Inv, Accounted, Has, Close, CloseCursor, calls
<1>7. ASSUME NEW p \in Processes, RefuseNext(p) PROVE Accounted'
  BY <1>7 DEF Inv, Accounted, Has, RefuseNext, Answered, MayRead, cursor
<1>8. ASSUME NEW p \in Processes, StartRead(p) PROVE Accounted'
  BY <1>8 DEF Inv, Accounted, Has, StartRead, MayRead
<1>9. ASSUME NEW p \in Processes, ReadBatch(p) PROVE Accounted'
  BY <1>9, CountAssumption, NULLAssumption DEF Inv, Accounted, MarksAreTrue, TypeOK,
       Has, ReadBatch
<1>10. ASSUME NEW p \in Processes, ReadNothing(p) PROVE Accounted'
  BY <1>10 DEF Inv, Accounted, Has, ReadNothing, Answered
<1>11. ASSUME NEW p \in Processes, Decode(p) PROVE Accounted'
  BY <1>11 DEF Inv, Accounted, TypeOK, Has, Decode, Answered, cursor
<1>12. ASSUME NEW d \in Descriptors, OpenElsewhere(d) PROVE Accounted'
  BY <1>12 DEF Inv, Accounted, Has, OpenElsewhere, cursor, calls
<1>13. ASSUME NEW d \in Descriptors, CloseElsewhere(d) PROVE Accounted'
  BY <1>13 DEF Inv, Accounted, Has, CloseElsewhere, cursor, calls
<1>14. CASE UNCHANGED vars
  BY <1>14 DEF Inv, Accounted, Has, vars, cursor, calls
<1> QED
  BY <1>1, <1>2, <1>3, <1>4, <1>5, <1>6, <1>7, <1>8, <1>9, <1>10, <1>11, <1>12,
     <1>13, <1>14 DEF Next, Use

\* The end is said only at the end, and the position never moves back.
LEMMA DoneStep ==
    ASSUME Inv, [Next]_vars
    PROVE  DoneAtTheEnd'
<1>1. CASE OpenPath
  BY <1>1 DEF Inv, DoneAtTheEnd, OpenPath, calls
<1>2. CASE MakeCursor
  BY <1>2 DEF Inv, DoneAtTheEnd, MakeCursor, CloseCursor, calls
<1>3. CASE Destruct
  BY <1>3 DEF Inv, DoneAtTheEnd, Destruct, CloseCursor, calls
<1>4. ASSUME NEW p \in Processes, Share(p) PROVE DoneAtTheEnd'
  BY <1>4 DEF Inv, DoneAtTheEnd, Share, cursor, calls
<1>5. ASSUME NEW p \in Processes, DropHandle(p) PROVE DoneAtTheEnd'
  BY <1>5 DEF Inv, DoneAtTheEnd, DropHandle, cursor, calls
<1>6. ASSUME NEW p \in Processes, Close(p) PROVE DoneAtTheEnd'
  BY <1>6 DEF Inv, DoneAtTheEnd, Close, CloseCursor, calls
<1>7. ASSUME NEW p \in Processes, RefuseNext(p) PROVE DoneAtTheEnd'
  BY <1>7, CountAssumption, NULLAssumption DEF Inv, DoneAtTheEnd, MarksAreTrue,
       TypeOK, RefuseNext, Answered, MayRead, cursor
<1>8. ASSUME NEW p \in Processes, StartRead(p) PROVE DoneAtTheEnd'
  BY <1>8 DEF Inv, DoneAtTheEnd, StartRead, MayRead
<1>9. ASSUME NEW p \in Processes, ReadBatch(p) PROVE DoneAtTheEnd'
  BY <1>9 DEF Inv, DoneAtTheEnd, TypeOK, ReadBatch
<1>10. ASSUME NEW p \in Processes, ReadNothing(p) PROVE DoneAtTheEnd'
  BY <1>10 DEF Inv, DoneAtTheEnd, TypeOK, ReadNothing, Answered
<1>11. ASSUME NEW p \in Processes, Decode(p) PROVE DoneAtTheEnd'
  BY <1>11 DEF Inv, DoneAtTheEnd, TypeOK, Decode, Answered, cursor
<1>12. ASSUME NEW d \in Descriptors, OpenElsewhere(d) PROVE DoneAtTheEnd'
  BY <1>12 DEF Inv, DoneAtTheEnd, OpenElsewhere, cursor, calls
<1>13. ASSUME NEW d \in Descriptors, CloseElsewhere(d) PROVE DoneAtTheEnd'
  BY <1>13 DEF Inv, DoneAtTheEnd, CloseElsewhere, cursor, calls
<1>14. CASE UNCHANGED vars
  BY <1>14 DEF Inv, DoneAtTheEnd, vars, cursor, calls
<1> QED
  BY <1>1, <1>2, <1>3, <1>4, <1>5, <1>6, <1>7, <1>8, <1>9, <1>10, <1>11, <1>12,
     <1>13, <1>14 DEF Next, Use

-----------------------------------------------------------------------------
(* Theorems *)

\* A cursor begins with no descriptor, no handle and nothing read.
LEMMA InvInitially == Init => Inv
<1> SUFFICES ASSUME Init PROVE Inv
  OBVIOUS
<1>1. TypeOK
  <2>1. 0 \in 0 .. EntryCount /\ {} \in SUBSET (1 .. EntryCount)
    BY CountAssumption
  <2>2. /\ batch \in [Processes -> SUBSET (1 .. EntryCount)]
        /\ received \in [Processes -> SUBSET (1 .. EntryCount)]
        /\ answer \in [Processes -> Answers]
    BY <2>1 DEF Init, Answers
  <2> QED
    BY <2>1, <2>2 DEF Init, TypeOK
<1>2. DescriptorsStayOurs /\ Protected
  BY NULLAssumption DEF Init, DescriptorsStayOurs, Protected
<1>3. MarksAreTrue /\ ListStops /\ DoneAtTheEnd
  BY OpenerAssumption DEF Init, MarksAreTrue, ListStops, DoneAtTheEnd
<1>4. Disjoint /\ Accounted
  BY DEF Init, Disjoint, Accounted, Has
<1> QED
  BY <1>1, <1>2, <1>3, <1>4 DEF Inv

\* Every step of a cursor keeps the invariant.
LEMMA InvHolds == Spec => []Inv
<1>1. Inv /\ [Next]_vars => Inv'
  BY TypeStep, DescriptorsStep, ProtectedStep, MarksStep, ListStep, DisjointStep, AccountedStep,
     DoneStep DEF Inv
<1> QED
  BY InvInitially, <1>1, PTL DEF Spec

\* A cursor closes its own descriptor, once, and no other, however many processes
\* read and close it while the rest of the process reuses the numbers.
THEOREM DescriptorsAreSafe == Spec => []DescriptorsStayOurs
<1>1. Inv => DescriptorsStayOurs
  BY DEF Inv
<1> QED
  BY InvHolds, <1>1, PTL

\* Readers partition the directory, done is said only at its end, and a list that
\* ends with it has every entry.
THEOREM EntriesArePartitioned == Spec => []EntriesComeOnce
<1>1. ASSUME Inv PROVE EntriesComeOnce
  <2>1. Accounted /\ Disjoint /\ DoneAtTheEnd
    BY <1>1 DEF Inv
  <2>2. ASSUME listing, answer[Opener] = "done" PROVE received[Opener] = 1 .. EntryCount
    <3>1. at[Opener] = "idle" /\ lost = {}
      BY <1>1, <2>2, OpenerAssumption DEF Inv, ListStops, TypeOK
    <3>2. batch[Opener] = {} /\ \A p \in Processes \ {Opener} : Has(p) = {}
      BY <1>1, <2>2, <3>1, OpenerAssumption DEF Inv, ListStops, MarksAreTrue, Has
    <3>3. position = EntryCount
      BY <2>1, <2>2, OpenerAssumption DEF DoneAtTheEnd
    <3>4. received[Opener] \subseteq 1 .. EntryCount
      BY <1>1, OpenerAssumption DEF Inv, TypeOK
    <3>5. \A n \in 1 .. EntryCount : n \in received[Opener]
      <4> TAKE n \in 1 .. EntryCount
      <4>1. n <= position
        BY <3>3, CountAssumption
      <4>2. PICK p \in Processes : n \in Has(p)
        BY <2>1, <3>1, <4>1 DEF Accounted
      <4> QED
        BY <3>2, <4>2 DEF Has
    <3> QED
      BY <3>4, <3>5
  <2> QED
    BY <2>1, <2>2 DEF EntriesComeOnce, Accounted, Disjoint, DoneAtTheEnd
<1> QED
  BY InvHolds, <1>1, PTL
-----------------------------------------------------------------------------
(* DirectoryScan *)

ErrorCounts == [error_number : Nat, count : Nat]

Scans == [batches : Seq(Seq(Entry)), children : Seq(Nat), child_capacity : Nat,
          errors : Seq(ErrorCounts), error_capacity : Nat,
          entries : Nat, directories : Nat, regular_files : Nat, symlinks : Nat, other : Nat,
          metadata_errors : Nat, skipped_mounts : Nat]

One(b) == IF b THEN 1 ELSE 0

\* A scan with another number in one of its counters is a scan.
LEMMA CountersAreNumbers ==
    ASSUME NEW s \in Scans, NEW n \in Nat
    PROVE  /\ [s EXCEPT !.regular_files = n] \in Scans /\ [s EXCEPT !.directories = n] \in Scans
           /\ [s EXCEPT !.symlinks = n] \in Scans /\ [s EXCEPT !.other = n] \in Scans
           /\ [s EXCEPT !.metadata_errors = n] \in Scans /\ [s EXCEPT !.skipped_mounts = n] \in Scans
           /\ [s EXCEPT !.entries = n] \in Scans
<1>1. [s EXCEPT !.regular_files = n] \in Scans
  BY DEF Scans
<1>2. [s EXCEPT !.directories = n] \in Scans
  BY DEF Scans
<1>3. [s EXCEPT !.symlinks = n] \in Scans
  BY DEF Scans
<1>4. [s EXCEPT !.other = n] \in Scans
  BY DEF Scans
<1>5. [s EXCEPT !.metadata_errors = n] \in Scans
  BY DEF Scans
<1>6. [s EXCEPT !.skipped_mounts = n] \in Scans
  BY DEF Scans
<1>7. [s EXCEPT !.entries = n] \in Scans
  BY DEF Scans
<1> QED BY <1>1, <1>2, <1>3, <1>4, <1>5, <1>6, <1>7

\* A table that holds n elements can take one more.
LEMMA CapacityGrows ==
    ASSUME NEW c \in Nat, NEW first \in Nat \ {0}, NEW n \in Nat, n <= c
    PROVE  /\ Capacity(c, first, n + 1) \in Nat /\ n + 1 <= Capacity(c, first, n + 1)
           /\ c <= Capacity(c, first, n + 1)
BY DEF Capacity

\* What record_scan_error does to the table: the count of a known error grows,
\* or the error gets a place of its own.
Noted(old, new, number) ==
    \/ \E k \in DOMAIN old :
          /\ old[k].error_number = number
          /\ new = [old EXCEPT ![k] = [error_number |-> number, count |-> old[k].count + 1]]
    \/ /\ \A k \in DOMAIN old : old[k].error_number # number
       /\ new = Append(old, [error_number |-> number, count |-> 1])

\* No error has two places in the table.
Distinct(errors) ==
    \A k, m \in DOMAIN errors : errors[k].error_number = errors[m].error_number => k = m

LEMMA ErrorTurn ==
    ASSUME NEW s \in Scans, NEW number \in Nat, Distinct(s.errors), TablesHold(s)
    PROVE  \E es \in Seq(ErrorCounts), c \in Nat :
              /\ WithError(s, number) = [s EXCEPT !.errors = es, !.error_capacity = c]
              /\ Noted(s.errors, es, number)
              /\ Len(es) <= c /\ s.error_capacity <= c
<1> DEFINE known == {k \in DOMAIN s.errors : s.errors[k].error_number = number}
<1>1. s.errors \in Seq(ErrorCounts) /\ Len(s.errors) \in Nat /\ DOMAIN s.errors = 1 .. Len(s.errors)
      /\ s.error_capacity \in Nat
  BY LenProperties DEF Scans
<1>2. \A k \in DOMAIN s.errors : s.errors[k] \in ErrorCounts
  BY <1>1, ElementOfSeq
<1>3. CASE known # {}
  <2>1. PICK k \in DOMAIN s.errors : s.errors[k].error_number = number
    BY <1>3
  <2>2. known = {k}
    BY <2>1 DEF Distinct
  <2> DEFINE mapped == [i \in DOMAIN s.errors |->
                          IF i \in known THEN [s.errors[i] EXCEPT !.count = s.errors[i].count + 1]
                          ELSE s.errors[i]]
             es == [s.errors EXCEPT ![k] = [error_number |-> number, count |-> s.errors[k].count + 1]]
  <2>3. [s.errors[k] EXCEPT !.count = s.errors[k].count + 1]
          = [error_number |-> number, count |-> s.errors[k].count + 1]
    BY <1>2, <2>1 DEF ErrorCounts
  <2>4. mapped = es
    BY <1>1, <2>2, <2>3
  <2>5. es \in Seq(ErrorCounts) /\ Len(es) = Len(s.errors)
    <3>1. [error_number |-> number, count |-> s.errors[k].count + 1] \in ErrorCounts
      BY <1>2, <2>1 DEF ErrorCounts
    <3> QED BY <1>1, <3>1, ExceptSeq
  <2>6. WithError(s, number) = [s EXCEPT !.errors = mapped]
    BY <1>3 DEF WithError
  <2>7. [s EXCEPT !.errors = mapped] = [s EXCEPT !.errors = es, !.error_capacity = s.error_capacity]
    <3>1. s = [s EXCEPT !.error_capacity = s.error_capacity]
      BY DEF Scans
    <3> HIDE DEF mapped, es
    <3> QED BY <2>4, <3>1 DEF Scans
  <2>8. Noted(s.errors, es, number)
    BY <2>1 DEF Noted
  <2>9. WithError(s, number) = [s EXCEPT !.errors = es, !.error_capacity = s.error_capacity]
    BY <2>6, <2>7
  <2>10. Len(es) <= s.error_capacity /\ s.error_capacity <= s.error_capacity
    BY <1>1, <2>5 DEF TablesHold
  <2>11. es \in Seq(ErrorCounts) /\ s.error_capacity \in Nat
    BY <1>1, <2>5
  <2> HIDE DEF mapped, es
  <2> USE <2>11
  <2> WITNESS es \in Seq(ErrorCounts), s.error_capacity \in Nat
  <2> QED BY <2>8, <2>9, <2>10
<1>4. CASE known = {}
  <2> DEFINE new == [error_number |-> number, count |-> 1]
             es == Append(s.errors, new)
             c == Capacity(s.error_capacity, FIRST_ERRORS, Len(s.errors) + 1)
  <2>1. WithError(s, number) = [s EXCEPT !.errors = es, !.error_capacity = c]
    BY <1>4 DEF WithError
  <2>2. c \in Nat /\ Len(s.errors) + 1 <= c /\ s.error_capacity <= c
    BY <1>1, CapacityGrows, CapacityAssumption DEF TablesHold
  <2>3. es \in Seq(ErrorCounts) /\ Len(es) = Len(s.errors) + 1
    <3>1. new \in ErrorCounts
      BY DEF ErrorCounts
    <3> HIDE DEF new
    <3> QED BY <1>1, <3>1, AppendProperties
  <2>4. Noted(s.errors, es, number)
    BY <1>4 DEF Noted
  <2> HIDE DEF c, es
  <2> QED BY <2>1, <2>2, <2>3, <2>4
<1> QED BY <1>3, <1>4

\* The fields of a scan that the kind of an entry does not touch, and those
\* that it does.
SameTables(s, t) ==
    /\ t.batches = s.batches /\ t.entries = s.entries
    /\ t.children = s.children /\ t.child_capacity = s.child_capacity
    /\ t.skipped_mounts = s.skipped_mounts

SameKinds(s, t) ==
    /\ t.regular_files = s.regular_files /\ t.directories = s.directories
    /\ t.symlinks = s.symlinks /\ t.other = s.other

KindCounted(s, t, kind) ==
    /\ t.regular_files = s.regular_files + One(kind = "regular")
    /\ t.directories = s.directories + One(kind = "directory")
    /\ t.symlinks = s.symlinks + One(kind = "symlink")
    /\ t.other = s.other + One(kind \in {"other", "untyped"})

SameErrors(s, t) ==
    t.errors = s.errors /\ t.error_capacity = s.error_capacity /\ t.metadata_errors = s.metadata_errors

LEMMA KindTurn ==
    ASSUME NEW s \in Scans, NEW kind \in {"regular", "directory", "symlink", "other", "untyped"}
    PROVE  /\ WithKind(s, kind) \in Scans
           /\ SameTables(s, WithKind(s, kind)) /\ SameErrors(s, WithKind(s, kind))
           /\ KindCounted(s, WithKind(s, kind), kind)
<1> DEFINE t == WithKind(s, kind)
<1> SUFFICES t \in Scans /\ SameTables(s, t) /\ SameErrors(s, t) /\ KindCounted(s, t, kind)
  OBVIOUS
<1>0. /\ s.regular_files + 1 \in Nat /\ s.directories + 1 \in Nat
      /\ s.symlinks + 1 \in Nat /\ s.other + 1 \in Nat
  <2>1. s.regular_files \in Nat /\ s.directories \in Nat /\ s.symlinks \in Nat /\ s.other \in Nat
    BY DEF Scans
  <2> HIDE DEF t
  <2> QED BY <2>1
<1>1. CASE kind = "regular"
  <2>1. t = [s EXCEPT !.regular_files = s.regular_files + 1]
    BY <1>1 DEF WithKind
  <2> HIDE DEF t
  <2>2. t \in Scans
    BY <1>0, <2>1, CountersAreNumbers
  <2>3. SameTables(s, t) /\ SameErrors(s, t)
    BY <2>1 DEF Scans, SameTables, SameErrors
  <2>4. KindCounted(s, t, kind)
    BY SMTT(30), ZenonT(30), <1>1, <2>1 DEF Scans, KindCounted, One
  <2> QED BY <2>2, <2>3, <2>4
<1>2. CASE kind = "directory"
  <2>1. t = [s EXCEPT !.directories = s.directories + 1]
    BY <1>2 DEF WithKind
  <2> HIDE DEF t
  <2>2. t \in Scans
    BY <1>0, <2>1, CountersAreNumbers
  <2>3. SameTables(s, t) /\ SameErrors(s, t)
    BY <2>1 DEF Scans, SameTables, SameErrors
  <2>4. KindCounted(s, t, kind)
    BY SMTT(30), ZenonT(30), <1>2, <2>1 DEF Scans, KindCounted, One
  <2> QED BY <2>2, <2>3, <2>4
<1>3. CASE kind = "symlink"
  <2>1. t = [s EXCEPT !.symlinks = s.symlinks + 1]
    BY <1>3 DEF WithKind
  <2> HIDE DEF t
  <2>2. t \in Scans
    BY <1>0, <2>1, CountersAreNumbers
  <2>3. SameTables(s, t) /\ SameErrors(s, t)
    BY <2>1 DEF Scans, SameTables, SameErrors
  <2>4. KindCounted(s, t, kind)
    BY SMTT(30), ZenonT(30), <1>3, <2>1 DEF Scans, KindCounted, One
  <2> QED BY <2>2, <2>3, <2>4
<1>4. CASE kind \in {"other", "untyped"}
  <2>1. t = [s EXCEPT !.other = s.other + 1]
    BY <1>4 DEF WithKind
  <2> HIDE DEF t
  <2>2. t \in Scans
    BY <1>0, <2>1, CountersAreNumbers
  <2>3. SameTables(s, t) /\ SameErrors(s, t)
    BY <2>1 DEF Scans, SameTables, SameErrors
  <2>4. KindCounted(s, t, kind)
    BY SMTT(30), ZenonT(30), <1>4, <2>1 DEF Scans, KindCounted, One
  <2> QED BY <2>2, <2>3, <2>4
<1> QED BY <1>1, <1>2, <1>3, <1>4

\* A turn of the loop, column by column.
Followed(e) == e.kind = "directory" /\ e.error = 0 /\ Traversed(e)
Skipped(e) == e.kind = "directory" /\ e.error = 0 /\ ~ Traversed(e)

TurnTaken(s, t, e, index) ==
    /\ t \in Scans
    /\ t.batches = s.batches /\ t.entries = s.entries
    /\ t.regular_files = s.regular_files + One(e.kind = "regular")
    /\ t.directories = s.directories + One(e.kind = "directory")
    /\ t.symlinks = s.symlinks + One(e.kind = "symlink")
    /\ t.other = s.other + One(e.kind \in {"other", "untyped"})
    /\ t.metadata_errors = s.metadata_errors + One(e.error # 0)
    /\ t.skipped_mounts = s.skipped_mounts + One(Skipped(e))
    /\ t.children = IF Followed(e) THEN Append(s.children, index) ELSE s.children
    /\ IF e.error = 0 THEN t.errors = s.errors ELSE Noted(s.errors, t.errors, e.error)
    /\ TablesHold(t)
    /\ s.child_capacity <= t.child_capacity /\ s.error_capacity <= t.error_capacity

LEMMA EntryTurn ==
    ASSUME NEW s \in Scans, NEW e \in Entry, NEW index \in Nat, Distinct(s.errors), TablesHold(s)
    PROVE  TurnTaken(s, WithEntry(s, e, index), e, index)
<1> DEFINE noted == IF e.error = 0 THEN s
                    ELSE [WithError(s, e.error) EXCEPT !.metadata_errors = @ + 1]
           counted == WithKind(noted, e.kind)
           t == WithEntry(s, e, index)
<1> SUFFICES TurnTaken(s, t, e, index)
  OBVIOUS
<1>1. /\ noted \in Scans /\ SameTables(s, noted) /\ SameKinds(s, noted)
      /\ noted.metadata_errors = s.metadata_errors + One(e.error # 0)
      /\ IF e.error = 0 THEN noted.errors = s.errors ELSE Noted(s.errors, noted.errors, e.error)
      /\ Len(noted.errors) <= noted.error_capacity /\ s.error_capacity <= noted.error_capacity
  <2>1. CASE e.error = 0
    <3>1. noted = s
      BY <2>1
    <3>2. s.metadata_errors \in Nat /\ s.error_capacity \in Nat
      BY DEF Scans
    <3> HIDE DEF noted
    <3> QED BY <2>1, <3>1, <3>2 DEF TablesHold, SameTables, SameKinds, One
  <2>2. CASE e.error # 0
    <3>1. e.error \in Nat
      BY DEF Entry
    <3>2. PICK es \in Seq(ErrorCounts), c \in Nat :
             /\ WithError(s, e.error) = [s EXCEPT !.errors = es, !.error_capacity = c]
             /\ Noted(s.errors, es, e.error)
             /\ Len(es) <= c /\ s.error_capacity <= c
      BY <3>1, ErrorTurn
    <3> DEFINE w == WithError(s, e.error)
    <3>3. noted = [w EXCEPT !.metadata_errors = w.metadata_errors + 1]
      BY <2>2
    <3>4. w \in Scans /\ w.errors = es /\ w.error_capacity = c /\ SameTables(s, w) /\ SameKinds(s, w)
          /\ w.metadata_errors = s.metadata_errors
      BY SMTT(30), ZenonT(30), <3>2 DEF Scans, SameTables, SameKinds
    <3> HIDE DEF w, noted
    <3>5. noted \in Scans
      <4>1. w.metadata_errors \in Nat
        BY <3>4 DEF Scans
      <4>2. w.metadata_errors + 1 \in Nat
        BY <4>1
      <4> QED BY <3>3, <3>4, <4>2, CountersAreNumbers
    <3>6. /\ noted.errors = es /\ noted.error_capacity = c
          /\ SameTables(w, noted) /\ SameKinds(w, noted)
          /\ noted.metadata_errors = w.metadata_errors + 1
      BY <3>3, <3>4 DEF Scans, SameTables, SameKinds
    <3> QED BY <2>2, <3>2, <3>4, <3>5, <3>6 DEF SameTables, SameKinds, One
  <2> QED BY <2>1, <2>2
<1> HIDE DEF noted
<1>4. /\ counted \in Scans /\ SameTables(noted, counted) /\ SameErrors(noted, counted)
      /\ KindCounted(noted, counted, e.kind)
  <2>1. e.kind \in {"regular", "directory", "symlink", "other", "untyped"}
    BY DEF Entry
  <2> QED BY <1>1, <2>1, KindTurn
<1>5. /\ SameTables(s, counted) /\ KindCounted(s, counted, e.kind)
      /\ counted.errors = noted.errors /\ counted.error_capacity = noted.error_capacity
      /\ counted.metadata_errors = s.metadata_errors + One(e.error # 0)
  BY <1>1, <1>4 DEF SameTables, SameErrors, SameKinds, KindCounted
<1> HIDE DEF counted
<1> DEFINE Rest(u) ==
             /\ u \in Scans /\ KindCounted(s, u, e.kind)
             /\ u.batches = s.batches /\ u.entries = s.entries
             /\ u.errors = noted.errors /\ u.error_capacity = noted.error_capacity
             /\ u.metadata_errors = s.metadata_errors + One(e.error # 0)
<1>6. t = IF e.kind # "directory" \/ e.error # 0 THEN counted
          ELSE IF Traversed(e)
            THEN [counted EXCEPT !.children = Append(s.children, index),
                                 !.child_capacity = Capacity(s.child_capacity, FIRST_CHILDREN, Len(s.children) + 1)]
            ELSE [counted EXCEPT !.skipped_mounts = s.skipped_mounts + 1]
  <2>1. t = IF e.kind # "directory" \/ e.error # 0 THEN counted
            ELSE IF Traversed(e)
              THEN [counted EXCEPT !.children = Append(counted.children, index),
                                   !.child_capacity = Capacity(counted.child_capacity, FIRST_CHILDREN, Len(s.children) + 1)]
              ELSE [counted EXCEPT !.skipped_mounts = counted.skipped_mounts + 1]
    BY DEF WithEntry, counted, noted
  <2> QED BY <1>5, <2>1 DEF SameTables
<1> HIDE DEF t
<1>7. Len(s.children) \in Nat /\ s.child_capacity \in Nat /\ s.children \in Seq(Nat)
      /\ s.skipped_mounts \in Nat /\ s.error_capacity \in Nat /\ Len(s.children) <= s.child_capacity
  BY LenProperties DEF Scans, TablesHold
<1>8. CASE e.kind # "directory" \/ e.error # 0
  <2>1. t = counted /\ ~ Followed(e) /\ ~ Skipped(e)
    BY <1>6, <1>8 DEF Followed, Skipped
  <2>2. Rest(t) /\ t.children = s.children /\ t.child_capacity = s.child_capacity
        /\ t.skipped_mounts = s.skipped_mounts + One(Skipped(e))
    BY <1>4, <1>5, <1>7, <2>1 DEF SameTables, One
  <2> QED BY <1>1, <1>7, <2>1, <2>2 DEF TurnTaken, TablesHold, KindCounted
<1>9. CASE e.kind = "directory" /\ e.error = 0 /\ Traversed(e)
  <2> DEFINE cs == Append(s.children, index)
             cc == Capacity(s.child_capacity, FIRST_CHILDREN, Len(s.children) + 1)
  <2>1. t = [counted EXCEPT !.children = cs, !.child_capacity = cc]
    BY <1>6, <1>9
  <2>2. cs \in Seq(Nat) /\ Len(cs) = Len(s.children) + 1
    BY <1>7, AppendProperties
  <2>3. cc \in Nat /\ Len(s.children) + 1 <= cc /\ s.child_capacity <= cc
    BY <1>7, CapacityGrows, CapacityAssumption
  <2>4. Followed(e) /\ ~ Skipped(e)
    BY <1>9 DEF Followed, Skipped
  <2>5. t.children = Append(s.children, index)
    BY <1>4, <2>1 DEF Scans
  <2> HIDE DEF cs, cc
  <2>6. t \in Scans
    BY <1>4, <2>1, <2>2, <2>3 DEF Scans
  <2>7. /\ t.children = cs /\ t.child_capacity = cc /\ t.skipped_mounts = s.skipped_mounts
        /\ Rest(t)
    BY <1>4, <1>5, <2>1, <2>6 DEF Scans, SameTables, KindCounted
  <2>8. TablesHold(t)
    BY <1>1, <2>2, <2>3, <2>7 DEF TablesHold
  <2>9. t.skipped_mounts = s.skipped_mounts + One(Skipped(e))
    BY <1>7, <2>4, <2>7 DEF One
  <2> QED BY <1>1, <2>3, <2>4, <2>5, <2>7, <2>8, <2>9 DEF TurnTaken, KindCounted
<1>10. CASE e.kind = "directory" /\ e.error = 0 /\ ~ Traversed(e)
  <2>1. t = [counted EXCEPT !.skipped_mounts = s.skipped_mounts + 1]
    BY <1>6, <1>10
  <2>2. Skipped(e) /\ ~ Followed(e)
    BY <1>10 DEF Followed, Skipped
  <2>3. t \in Scans
    <3>1. s.skipped_mounts + 1 \in Nat
      BY <1>7
    <3> QED BY <1>4, <2>1, <3>1, CountersAreNumbers
  <2>4. /\ t.children = s.children /\ t.child_capacity = s.child_capacity
        /\ t.skipped_mounts = s.skipped_mounts + 1 /\ Rest(t)
    BY <1>4, <1>5, <2>1, <2>3 DEF Scans, SameTables, KindCounted
  <2>5. TablesHold(t) /\ t.skipped_mounts = s.skipped_mounts + One(Skipped(e))
    BY <1>1, <1>7, <2>2, <2>4 DEF TablesHold, One
  <2>6. s.child_capacity <= t.child_capacity /\ s.error_capacity <= t.error_capacity
    BY <1>1, <1>7, <2>4
  <2> HIDE DEF t
  <2> QED BY <1>1, <2>2, <2>4, <2>5, <2>6 DEF TurnTaken, KindCounted
<1> QED BY <1>8, <1>9, <1>10
-----------------------------------------------------------------------------
\* One number more is counted if it belongs to the set.
LEMMA CountStep ==
    ASSUME NEW n \in Nat, NEW X
    PROVE  /\ Cardinality((1 .. n) \cap X) \in Nat
           /\ Cardinality((1 .. n + 1) \cap X) = Cardinality((1 .. n) \cap X) + One(n + 1 \in X)
<1>1. IsFiniteSet((1 .. n) \cap X)
  <2>1. IsFiniteSet(1 .. n)
    BY FS_Interval
  <2>2. (1 .. n) \cap X \subseteq 1 .. n
    OBVIOUS
  <2> QED BY <2>1, <2>2, FS_Subset
<1>2. Cardinality((1 .. n) \cap X) \in Nat
  BY <1>1, FS_CardinalityType
<1>3. CASE n + 1 \in X
  <2>1. (1 .. n + 1) \cap X = ((1 .. n) \cap X) \cup {n + 1}
    BY <1>3
  <2>2. n + 1 \notin (1 .. n) \cap X
    OBVIOUS
  <2> QED BY <1>1, <1>2, <1>3, <2>1, <2>2, FS_AddElement DEF One
<1>4. CASE n + 1 \notin X
  <2>1. (1 .. n + 1) \cap X = (1 .. n) \cap X
    BY <1>4
  <2> QED BY <1>2, <1>4, <2>1 DEF One
<1> QED BY <1>2, <1>3, <1>4

LEMMA CountsStep ==
    ASSUME NEW n \in Nat, NEW s \in Scans, NEW t, CountsAre(s, n), TurnTaken(s, t, directory[n + 1], n)
    PROVE  CountsAre(t, n + 1)
<1> DEFINE With(kinds) == {i \in Nat : directory[i].kind \in kinds}
           Of(m, kinds) == Cardinality({i \in 1 .. m : directory[i].kind \in kinds})
<1>1. ASSUME NEW kinds
      PROVE  Of(n + 1, kinds) = Of(n, kinds) + One(directory[n + 1].kind \in kinds)
  <2>1. \A m \in Nat : {i \in 1 .. m : directory[i].kind \in kinds} = (1 .. m) \cap With(kinds)
    OBVIOUS
  <2>2. n + 1 \in Nat /\ (n + 1 \in With(kinds) <=> directory[n + 1].kind \in kinds)
    OBVIOUS
  <2>3. Cardinality((1 .. n + 1) \cap With(kinds))
          = Cardinality((1 .. n) \cap With(kinds)) + One(n + 1 \in With(kinds))
    BY CountStep
  <2> HIDE DEF With
  <2> QED BY <2>1, <2>2, <2>3 DEF One
<1>2. /\ s.regular_files = Of(n, {"regular"}) /\ s.directories = Of(n, {"directory"})
      /\ s.symlinks = Of(n, {"symlink"}) /\ s.other = Of(n, {"other", "untyped"})
  BY DEF CountsAre
<1> HIDE DEF Of
<1>3. /\ t.regular_files = Of(n + 1, {"regular"}) /\ t.directories = Of(n + 1, {"directory"})
      /\ t.symlinks = Of(n + 1, {"symlink"}) /\ t.other = Of(n + 1, {"other", "untyped"})
  BY <1>1, <1>2 DEF TurnTaken, One
<1> QED BY <1>3 DEF CountsAre, Of

LEMMA ChildrenStep ==
    ASSUME NEW n \in Nat, NEW s \in Scans, NEW t, ChildrenAre(s, n), TurnTaken(s, t, directory[n + 1], n)
    PROVE  ChildrenAre(t, n + 1)
<1> DEFINE e == directory[n + 1]
           sound(m) == {i \in 1 .. m : directory[i].kind = "directory" /\ directory[i].error = 0}
           followed(m) == {j \in sound(m) : Traversed(directory[j])}
           places(u) == {u.children[k] : k \in DOMAIN u.children}
<1>1. /\ \A k, m \in DOMAIN s.children : k < m => s.children[k] < s.children[m]
      /\ places(s) = {i - 1 : i \in followed(n)}
      /\ s.skipped_mounts = Cardinality({i \in sound(n) : ~ Traversed(directory[i])})
  BY DEF ChildrenAre
<1>2. t.skipped_mounts = Cardinality({i \in sound(n + 1) : ~ Traversed(directory[i])})
  <2> DEFINE X == {i \in Nat : Skipped(directory[i])}
  <2>1. /\ {i \in sound(n) : ~ Traversed(directory[i])} = (1 .. n) \cap X
        /\ {i \in sound(n + 1) : ~ Traversed(directory[i])} = (1 .. n + 1) \cap X
    BY DEF Skipped
  <2>2. n + 1 \in X <=> Skipped(e)
    OBVIOUS
  <2> HIDE DEF X
  <2>3. Cardinality((1 .. n + 1) \cap X) = Cardinality((1 .. n) \cap X) + One(n + 1 \in X)
    BY CountStep
  <2>4. t.skipped_mounts = s.skipped_mounts + One(Skipped(e))
    BY DEF TurnTaken
  <2> HIDE DEF sound, e
  <2> QED BY <1>1, <2>1, <2>2, <2>3, <2>4 DEF One
<1>3. s.children \in Seq(Nat) /\ Len(s.children) \in Nat /\ DOMAIN s.children = 1 .. Len(s.children)
  BY LenProperties DEF Scans
<1>4. CASE Followed(e)
  <2>1. followed(n + 1) = followed(n) \cup {n + 1}
    BY <1>4 DEF Followed
  <2>2. t.children = Append(s.children, n)
    BY <1>4 DEF TurnTaken
  <2>3. /\ t.children \in Seq(Nat) /\ Len(t.children) = Len(s.children) + 1
        /\ DOMAIN t.children = 1 .. Len(s.children) + 1
        /\ t.children[Len(s.children) + 1] = n
        /\ \A k \in 1 .. Len(s.children) : t.children[k] = s.children[k]
    BY <1>3, <2>2, AppendProperties, LenProperties
  <2>9. \A k \in DOMAIN t.children :
           k # Len(s.children) + 1 => k \in DOMAIN s.children /\ t.children[k] = s.children[k]
    <3> SUFFICES ASSUME NEW k \in 1 .. Len(s.children) + 1, k # Len(s.children) + 1
                 PROVE  k \in DOMAIN s.children /\ t.children[k] = s.children[k]
      BY <2>3
    <3>1. k \in 1 .. Len(s.children)
      BY <1>3
    <3> QED BY <1>3, <2>3, <3>1
  <2>10. \A k \in DOMAIN s.children : k \in DOMAIN t.children /\ t.children[k] = s.children[k]
    <3> SUFFICES ASSUME NEW k \in 1 .. Len(s.children)
                 PROVE  k \in DOMAIN t.children /\ t.children[k] = s.children[k]
      BY <1>3
    <3>1. k \in 1 .. Len(s.children) + 1
      BY <1>3
    <3> QED BY <2>3, <3>1
  <2>4. \A k \in DOMAIN s.children : s.children[k] < n
    <3>1. SUFFICES ASSUME NEW k \in DOMAIN s.children PROVE s.children[k] < n
      OBVIOUS
    <3>2. PICK i \in followed(n) : s.children[k] = i - 1
      BY <1>1
    <3> QED BY <3>2
  <2>5. ASSUME NEW k \in DOMAIN t.children, NEW m \in DOMAIN t.children, k < m
        PROVE  t.children[k] < t.children[m]
    <3>1. k \in DOMAIN s.children
      BY <1>3, <2>3, <2>5
    <3>2. CASE m = Len(s.children) + 1
      BY <1>3, <2>3, <2>4, <3>1, <3>2
    <3>3. CASE m # Len(s.children) + 1
      <4>1. s.children[k] < s.children[m] /\ t.children[k] = s.children[k] /\ t.children[m] = s.children[m]
        BY <1>1, <2>5, <2>9, <2>10, <3>1, <3>3
      <4> QED BY <4>1
    <3> QED BY <3>2, <3>3
  <2>6. places(t) = places(s) \cup {n}
    <3>1. places(t) \subseteq places(s) \cup {n}
      <4> SUFFICES ASSUME NEW k \in DOMAIN t.children PROVE t.children[k] \in places(s) \cup {n}
        OBVIOUS
      <4>1. CASE k = Len(s.children) + 1
        BY <2>3, <4>1
      <4>2. CASE k # Len(s.children) + 1
        BY <2>9, <4>2
      <4> QED BY <4>1, <4>2
    <3>2. places(s) \subseteq places(t)
      BY <2>10
    <3>3. n \in places(t)
      <4>1. Len(s.children) + 1 \in DOMAIN t.children
        BY <1>3, <2>3
      <4> QED BY <2>3, <4>1
    <3> QED BY <3>1, <3>2, <3>3
  <2>7. {i - 1 : i \in followed(n + 1)} = {i - 1 : i \in followed(n)} \cup {n}
    <3>1. (n + 1) - 1 = n
      OBVIOUS
    <3> HIDE DEF followed
    <3> QED BY <2>1, <3>1
  <2>8. places(t) = {i - 1 : i \in followed(n + 1)}
    BY <1>1, <2>6, <2>7
  <2> QED BY <1>2, <2>5, <2>8 DEF ChildrenAre
<1>5. CASE ~ Followed(e)
  <2>1. followed(n + 1) = followed(n)
    BY <1>5 DEF Followed
  <2>2. t.children = s.children
    BY <1>5 DEF TurnTaken
  <2>3. {i - 1 : i \in followed(n + 1)} = {i - 1 : i \in followed(n)}
    BY <2>1
  <2>4. places(t) = {i - 1 : i \in followed(n + 1)}
    BY <1>1, <2>2, <2>3
  <2>5. \A k, m \in DOMAIN t.children : k < m => t.children[k] < t.children[m]
    BY <1>1, <2>2
  <2> QED BY <1>2, <2>4, <2>5 DEF ChildrenAre
<1> QED BY <1>4, <1>5

\* The property says among others that no error has two places.
LEMMA ErrorsAreDistinct == ASSUME NEW n, NEW s, ErrorsAre(s, n) PROVE Distinct(s.errors)
BY DEF ErrorsAre, Distinct

LEMMA ErrorsStep ==
    ASSUME NEW n \in Nat, NEW s \in Scans, NEW t, ErrorsAre(s, n), TurnTaken(s, t, directory[n + 1], n),
           directory[n + 1].error \in Nat
    PROVE  ErrorsAre(t, n + 1)
<1> DEFINE e == directory[n + 1]
           with(m, number) == {i \in 1 .. m : directory[i].error = number}
<1>1. /\ s.metadata_errors = Cardinality((1 .. n) \ with(n, 0))
      /\ \A i \in (1 .. n) \ with(n, 0) :
            \E k \in DOMAIN s.errors : s.errors[k].error_number = directory[i].error
      /\ \A k \in DOMAIN s.errors :
            /\ s.errors[k].error_number # 0
            /\ s.errors[k].count = Cardinality(with(n, s.errors[k].error_number)) /\ s.errors[k].count # 0
  BY DEF ErrorsAre
<1>2. Distinct(s.errors)
  BY ErrorsAreDistinct
<1>3. t.metadata_errors = Cardinality((1 .. n + 1) \ with(n + 1, 0))
  <2> DEFINE X == {i \in Nat : directory[i].error # 0}
  <2>1. (1 .. n) \ with(n, 0) = (1 .. n) \cap X /\ (1 .. n + 1) \ with(n + 1, 0) = (1 .. n + 1) \cap X
    OBVIOUS
  <2>2. n + 1 \in X <=> e.error # 0
    OBVIOUS
  <2> HIDE DEF X
  <2>3. Cardinality((1 .. n + 1) \cap X) = Cardinality((1 .. n) \cap X) + One(n + 1 \in X)
    BY CountStep
  <2>4. t.metadata_errors = s.metadata_errors + One(e.error # 0)
    BY DEF TurnTaken
  <2> HIDE DEF with, e
  <2> QED BY <1>1, <2>1, <2>2, <2>3, <2>4 DEF One
<1>4. ASSUME NEW number
      PROVE  /\ Cardinality(with(n, number)) \in Nat
             /\ Cardinality(with(n + 1, number)) = Cardinality(with(n, number)) + One(e.error = number)
  <2> DEFINE X == {i \in Nat : directory[i].error = number}
  <2>1. with(n, number) = (1 .. n) \cap X /\ with(n + 1, number) = (1 .. n + 1) \cap X
    OBVIOUS
  <2>2. n + 1 \in X <=> e.error = number
    OBVIOUS
  <2> HIDE DEF X
  <2>3. Cardinality((1 .. n + 1) \cap X) = Cardinality((1 .. n) \cap X) + One(n + 1 \in X)
        /\ Cardinality((1 .. n) \cap X) \in Nat
    BY CountStep
  <2> HIDE DEF with, e
  <2> QED BY <2>1, <2>2, <2>3 DEF One
<1>5. s.errors \in Seq(ErrorCounts) /\ Len(s.errors) \in Nat /\ DOMAIN s.errors = 1 .. Len(s.errors)
      /\ \A k \in DOMAIN s.errors : s.errors[k] \in ErrorCounts
  BY LenProperties, ElementOfSeq DEF Scans
<1> DEFINE Listed(errors, m) ==
             /\ \A i \in (1 .. m) \ with(m, 0) : \E k \in DOMAIN errors : errors[k].error_number = directory[i].error
             /\ \A k \in DOMAIN errors :
                   /\ errors[k].error_number # 0
                   /\ errors[k].count = Cardinality(with(m, errors[k].error_number)) /\ errors[k].count # 0
             /\ Distinct(errors)
<1>6. Listed(t.errors, n + 1) => ErrorsAre(t, n + 1)
  BY <1>3 DEF ErrorsAre, Distinct
<1>7. ASSUME NEW i \in (1 .. n + 1) \ with(n + 1, 0), i # n + 1
      PROVE  \E k \in DOMAIN s.errors : s.errors[k].error_number = directory[i].error
  BY <1>1, <1>7
<1>8. CASE e.error = 0
  <2>1. t.errors = s.errors
    BY <1>8 DEF TurnTaken
  <2>2. \A i \in (1 .. n + 1) \ with(n + 1, 0) :
           \E k \in DOMAIN s.errors : s.errors[k].error_number = directory[i].error
    BY <1>7, <1>8
  <2>3. ASSUME NEW k \in DOMAIN s.errors
        PROVE  Cardinality(with(n + 1, s.errors[k].error_number)) = s.errors[k].count
    <3> HIDE DEF with
    <3> QED BY <1>1, <1>4, <1>8 DEF One
  <2> HIDE DEF with
  <2>4. Listed(s.errors, n + 1)
    BY <1>1, <1>2, <2>2, <2>3
  <2> QED BY <1>6, <2>1, <2>4
<1>9. CASE e.error # 0 /\ \E k \in DOMAIN s.errors :
                           /\ s.errors[k].error_number = e.error
                           /\ t.errors = [s.errors EXCEPT ![k] = [error_number |-> e.error,
                                                                  count |-> s.errors[k].count + 1]]
  <2>1. PICK k \in DOMAIN s.errors :
           /\ s.errors[k].error_number = e.error
           /\ t.errors = [s.errors EXCEPT ![k] = [error_number |-> e.error,
                                                  count |-> s.errors[k].count + 1]]
    BY <1>9
  <2>2. /\ DOMAIN t.errors = DOMAIN s.errors
        /\ \A j \in DOMAIN s.errors : t.errors[j].error_number = s.errors[j].error_number
        /\ \A j \in DOMAIN s.errors \ {k} : t.errors[j] = s.errors[j]
        /\ t.errors[k].count = s.errors[k].count + 1
    BY <1>5, <2>1
  <2>3. \A i \in (1 .. n + 1) \ with(n + 1, 0) :
           \E j \in DOMAIN t.errors : t.errors[j].error_number = directory[i].error
    <3> SUFFICES ASSUME NEW i \in (1 .. n + 1) \ with(n + 1, 0)
                 PROVE  \E j \in DOMAIN s.errors : s.errors[j].error_number = directory[i].error
      BY <2>2
    <3> QED BY <1>7, <2>1
  <2>4. ASSUME NEW j \in DOMAIN s.errors
        PROVE  /\ t.errors[j].error_number # 0
               /\ t.errors[j].count = Cardinality(with(n + 1, t.errors[j].error_number))
               /\ t.errors[j].count # 0
    <3>1. Cardinality(with(n + 1, s.errors[j].error_number))
            = Cardinality(with(n, s.errors[j].error_number)) + One(e.error = s.errors[j].error_number)
          /\ s.errors[j].count \in Nat
      <4> HIDE DEF with
      <4> QED BY <1>4, <1>5 DEF ErrorCounts
    <3> HIDE DEF with
    <3>2. CASE j = k
      BY <1>1, <2>1, <2>2, <3>1, <3>2 DEF One
    <3>3. CASE j # k
      <4>1. e.error # s.errors[j].error_number
        BY <1>2, <2>1, <3>3 DEF Distinct
      <4>2. t.errors[j] = s.errors[j] /\ s.errors[j].count = Cardinality(with(n, s.errors[j].error_number))
            /\ s.errors[j].count # 0 /\ s.errors[j].error_number # 0
        BY <1>1, <2>2, <3>3
      <4> QED BY <3>1, <4>1, <4>2 DEF One
    <3> QED BY <3>2, <3>3
  <2>5. Distinct(t.errors)
    BY <1>2, <2>2 DEF Distinct
  <2> HIDE DEF with
  <2>6. Listed(t.errors, n + 1)
    BY <2>2, <2>3, <2>4, <2>5
  <2> QED BY <1>6, <2>6
<1>10. CASE e.error # 0 /\ (\A k \in DOMAIN s.errors : s.errors[k].error_number # e.error)
             /\ t.errors = Append(s.errors, [error_number |-> e.error, count |-> 1])
  <2> DEFINE new == [error_number |-> e.error, count |-> 1]
  <2>1. new \in ErrorCounts /\ new.error_number = e.error /\ new.count = 1
    BY DEF ErrorCounts
  <2>2. t.errors = Append(s.errors, new)
    BY <1>10
  <2> HIDE DEF new
  <2>3. /\ DOMAIN t.errors = 1 .. Len(s.errors) + 1
        /\ t.errors[Len(s.errors) + 1] = new
        /\ \A k \in 1 .. Len(s.errors) : t.errors[k] = s.errors[k]
    BY <1>5, <2>1, <2>2, AppendProperties, LenProperties
  <2>4. with(n, e.error) = {}
    BY <1>1, <1>10
  <2>5. Cardinality(with(n + 1, e.error)) = 1
    <3>1. Cardinality(with(n, e.error)) = 0
      BY <2>4, FS_EmptySet
    <3> HIDE DEF with
    <3> QED BY <1>4, <3>1 DEF One
  <2>6. \A i \in (1 .. n + 1) \ with(n + 1, 0) :
           \E j \in DOMAIN t.errors : t.errors[j].error_number = directory[i].error
    <3> SUFFICES ASSUME NEW i \in (1 .. n + 1) \ with(n + 1, 0)
                 PROVE  \E j \in DOMAIN t.errors : t.errors[j].error_number = directory[i].error
      OBVIOUS
    <3>1. CASE i = n + 1
      <4>1. Len(s.errors) + 1 \in DOMAIN t.errors /\ t.errors[Len(s.errors) + 1].error_number = directory[i].error
        BY <1>5, <2>1, <2>3, <3>1
      <4> QED BY <4>1
    <3>2. CASE i # n + 1
      <4>1. PICK j \in DOMAIN s.errors : s.errors[j].error_number = directory[i].error
        BY <1>7, <3>2
      <4>2. j \in DOMAIN t.errors /\ t.errors[j] = s.errors[j]
        BY <1>5, <2>3
      <4> QED BY <4>1, <4>2
    <3> QED BY <3>1, <3>2
  <2>7. ASSUME NEW j \in DOMAIN t.errors
        PROVE  /\ t.errors[j].error_number # 0
               /\ t.errors[j].count = Cardinality(with(n + 1, t.errors[j].error_number))
               /\ t.errors[j].count # 0
    <3> HIDE DEF with
    <3>1. CASE j = Len(s.errors) + 1
      BY <1>10, <2>1, <2>3, <2>5, <3>1
    <3>2. CASE j # Len(s.errors) + 1
      <4>1. j \in DOMAIN s.errors /\ t.errors[j] = s.errors[j]
        BY <1>5, <2>3, <3>2
      <4>2. e.error # s.errors[j].error_number
        BY <1>10, <4>1
      <4>3. s.errors[j].count = Cardinality(with(n, s.errors[j].error_number))
            /\ s.errors[j].count # 0 /\ s.errors[j].error_number # 0
        BY <1>1, <4>1
      <4>4. Cardinality(with(n + 1, s.errors[j].error_number)) = Cardinality(with(n, s.errors[j].error_number))
        BY <1>4, <4>2 DEF One
      <4> QED BY <4>1, <4>3, <4>4
    <3> QED BY <3>1, <3>2
  <2>8. Distinct(t.errors)
    <3> SUFFICES ASSUME NEW j \in DOMAIN t.errors, NEW m \in DOMAIN t.errors,
                        t.errors[j].error_number = t.errors[m].error_number
                 PROVE  j = m
      BY DEF Distinct
    <3>1. \A k \in DOMAIN t.errors : k # Len(s.errors) + 1 =>
             k \in DOMAIN s.errors /\ t.errors[k] = s.errors[k] /\ t.errors[k].error_number # e.error
      BY SMTT(30), ZenonT(30), <1>5, <1>10, <2>3
    <3> QED BY SMTT(10), ZenonT(60), <1>2, <2>1, <2>3, <3>1 DEF Distinct
  <2> HIDE DEF with
  <2>9. Listed(t.errors, n + 1)
    BY <2>6, <2>7, <2>8
  <2> QED BY <1>6, <2>9
<1>11. e.error = 0 \/ Noted(s.errors, t.errors, e.error)
  BY DEF TurnTaken
<1> QED BY <1>8, <1>9, <1>10, <1>11 DEF Noted

\* A turn of the loop keeps all that the scan says, of one entry more.
LEMMA DescribesStep ==
    ASSUME directory \in Seq(Entry), NEW n \in Nat, n < Len(directory), NEW s \in Scans, Describes(s, n)
    PROVE  /\ TurnTaken(s, WithEntry(s, directory[n + 1], n), directory[n + 1], n)
           /\ Describes(WithEntry(s, directory[n + 1], n), n + 1)
<1>1. directory[n + 1] \in Entry
  BY LenProperties, ElementOfSeq
<1>2. directory[n + 1].error \in Nat
  BY <1>1 DEF Entry
<1> DEFINE t == WithEntry(s, directory[n + 1], n)
<1>3. Distinct(s.errors) /\ TablesHold(s)
  BY ErrorsAreDistinct DEF Describes
<1>4. TurnTaken(s, t, directory[n + 1], n)
  BY <1>1, <1>3, EntryTurn
<1> HIDE DEF t
<1>5. CountsAre(t, n + 1) /\ ChildrenAre(t, n + 1) /\ ErrorsAre(t, n + 1)
  BY <1>2, <1>4, CountsStep, ChildrenStep, ErrorsStep DEF Describes
<1>6. TablesHold(t)
  BY <1>4 DEF TurnTaken
<1>7. TurnTaken(s, t, directory[n + 1], n) /\ Describes(t, n + 1)
  BY <1>4, <1>5, <1>6 DEF Describes
<1> QED BY <1>7 DEF t
-----------------------------------------------------------------------------
\* The recursion that Turns solves, and that it has a solution.
IsTurns(g, s, piece, first, last) ==
    g = [n \in 0 .. last |-> IF n = 0 THEN s ELSE WithEntry(g[n - 1], piece[n], first + n - 1)]

LEMMA TurnsUnfold ==
    ASSUME NEW s, NEW piece, NEW first, Len(piece) \in Nat
    PROVE  IsTurns(Turns(s, piece, first), s, piece, first, Len(piece))
<1> DEFINE Done == {last \in Nat : \E g : IsTurns(g, s, piece, first, last)}
<1>1. 0 \in Done
  <2> DEFINE g == [n \in 0 .. 0 |-> s]
  <2>1. IsTurns(g, s, piece, first, 0)
    BY DEF IsTurns
  <2> HIDE DEF g
  <2> QED BY <2>1
<1>2. ASSUME NEW last \in Nat, last \in Done PROVE last + 1 \in Done
  <2>1. PICK g : IsTurns(g, s, piece, first, last)
    BY <1>2
  <2> DEFINE new == WithEntry(g[last], piece[last + 1], first + (last + 1) - 1)
             h == [n \in 0 .. last + 1 |-> IF n = last + 1 THEN new ELSE g[n]]
  <2>2. \A n \in 0 .. last : g[n] = IF n = 0 THEN s ELSE WithEntry(g[n - 1], piece[n], first + n - 1)
    BY <2>1 DEF IsTurns
  <2>3. \A n \in 0 .. last : h[n] = g[n] /\ n # last + 1
    OBVIOUS
  <2>4. h[last + 1] = new /\ (last + 1) - 1 = last /\ last + 1 # 0
    OBVIOUS
  <2>5. h = [n \in 0 .. last + 1 |-> h[n]]
    OBVIOUS
  <2> HIDE DEF h
  <2>6. ASSUME NEW n \in 0 .. last + 1
        PROVE  h[n] = IF n = 0 THEN s ELSE WithEntry(h[n - 1], piece[n], first + n - 1)
    <3>1. CASE n = last + 1
      <4>1. h[n - 1] = g[last]
        BY <2>3, <2>4, <3>1
      <4> QED BY <2>4, <3>1, <4>1
    <3>2. CASE n # last + 1
      <4>1. n \in 0 .. last /\ (n # 0 => n - 1 \in 0 .. last)
        BY <3>2
      <4> QED BY <2>2, <2>3, <4>1
    <3> QED BY <3>1, <3>2
  <2>7. IsTurns(h, s, piece, first, last + 1)
    BY <2>5, <2>6 DEF IsTurns
  <2> QED BY <2>7
<1>3. Nat \subseteq Done
  <2> HIDE DEF Done
  <2> QED BY <1>1, <1>2, Induction
<1>4. \E g : IsTurns(g, s, piece, first, Len(piece))
  BY <1>3
<1>5. Turns(s, piece, first) = CHOOSE g : IsTurns(g, s, piece, first, Len(piece))
  BY DEF Turns, IsTurns
<1> QED BY <1>4, <1>5

\* What no turn of the loop changes, and what only grows.
Later(s, t) ==
    /\ t \in Scans /\ t.batches = s.batches /\ t.entries = s.entries
    /\ s.child_capacity <= t.child_capacity /\ s.error_capacity <= t.error_capacity

\* A batch is a piece of the directory: turn by turn the scan describes one
\* entry more.
LEMMA TurnsDescribe ==
    ASSUME directory \in Seq(Entry), NEW s \in Scans, NEW first \in Nat, Describes(s, first),
           NEW piece, Len(piece) \in Nat, first + Len(piece) <= Len(directory),
           \A i \in 1 .. Len(piece) : piece[i] = directory[first + i]
    PROVE  \A n \in 0 .. Len(piece) : /\ Later(s, Turns(s, piece, first)[n])
                                      /\ Describes(Turns(s, piece, first)[n], first + n)
<1> DEFINE after == Turns(s, piece, first)
           Done == {n \in Nat : n <= Len(piece) => Later(s, after[n]) /\ Describes(after[n], first + n)}
<1>1. \A n \in 0 .. Len(piece) : after[n] = IF n = 0 THEN s ELSE WithEntry(after[n - 1], piece[n], first + n - 1)
  BY TurnsUnfold DEF IsTurns
<1>2. Len(directory) \in Nat
  BY LenProperties
<1> HIDE DEF after
<1>3. 0 \in Done
  <2>1. after[0] = s /\ first + 0 = first
    BY <1>1
  <2>2. s.child_capacity \in Nat /\ s.error_capacity \in Nat
    BY DEF Scans
  <2> QED BY <2>1, <2>2 DEF Later
<1>4. ASSUME NEW n \in Nat, n \in Done PROVE n + 1 \in Done
  <2> SUFFICES ASSUME n + 1 <= Len(piece)
               PROVE  Later(s, after[n + 1]) /\ Describes(after[n + 1], first + (n + 1))
    OBVIOUS
  <2>1. Later(s, after[n]) /\ Describes(after[n], first + n)
    BY <1>4
  <2>2. /\ n + 1 \in 1 .. Len(piece) /\ n + 1 \in 0 .. Len(piece) /\ n + 1 # 0 /\ (n + 1) - 1 = n
        /\ first + (n + 1) - 1 = first + n /\ first + (n + 1) = (first + n) + 1
        /\ first + n \in Nat /\ first + n < Len(directory)
    BY <1>2
  <2>3. after[n + 1] = WithEntry(after[n], directory[(first + n) + 1], first + n)
    BY <1>1, <2>2
  <2>4. after[n] \in Scans
    BY <2>1 DEF Later
  <2>5. /\ TurnTaken(after[n], after[n + 1], directory[(first + n) + 1], first + n)
        /\ Describes(after[n + 1], (first + n) + 1)
    BY <2>1, <2>2, <2>3, <2>4, DescribesStep
  <2>6. /\ s.child_capacity \in Nat /\ s.error_capacity \in Nat
        /\ after[n].child_capacity \in Nat /\ after[n].error_capacity \in Nat
        /\ after[n + 1].child_capacity \in Nat /\ after[n + 1].error_capacity \in Nat
    BY <2>4, <2>5 DEF Scans, TurnTaken
  <2>8. /\ after[n + 1] \in Scans
        /\ after[n + 1].batches = after[n].batches /\ after[n + 1].entries = after[n].entries
        /\ after[n].child_capacity <= after[n + 1].child_capacity
        /\ after[n].error_capacity <= after[n + 1].error_capacity
    BY <2>5 DEF TurnTaken
  <2>9. /\ after[n].batches = s.batches /\ after[n].entries = s.entries
        /\ s.child_capacity <= after[n].child_capacity
        /\ s.error_capacity <= after[n].error_capacity
    BY <2>1 DEF Later
  <2>10. /\ s.child_capacity <= after[n + 1].child_capacity
         /\ s.error_capacity <= after[n + 1].error_capacity
    <3> HIDE DEF Done
    <3>1. \A x, y, z \in Nat : x <= y /\ y <= z => x <= z
      OBVIOUS
    <3>2. s.child_capacity <= after[n + 1].child_capacity
      BY SMTT(30), ZenonT(30), <2>6, <2>8, <2>9, <3>1
    <3>3. s.error_capacity <= after[n + 1].error_capacity
      BY SMTT(30), ZenonT(30), <2>6, <2>8, <2>9, <3>1
    <3> QED BY <3>2, <3>3
  <2>7. Later(s, after[n + 1])
    BY <2>8, <2>9, <2>10 DEF Later
  <2> QED BY <2>2, <2>5, <2>7
<1>5. Nat \subseteq Done
  <2> HIDE DEF Done
  <2> QED BY <1>3, <1>4, Induction
<1>6. ASSUME NEW n \in 0 .. Len(piece) PROVE Later(s, after[n]) /\ Describes(after[n], first + n)
  BY <1>5
<1> QED BY <1>6 DEF after
-----------------------------------------------------------------------------
Chained(s, n) == FlattenSeq(s.batches) = SubSeq(directory, 1, n)

Summed(s, n) == s.entries = n /\ Describes(s, n)

ScanTypes ==
    /\ directory \in Seq(Entry) /\ scan \in Scans
    /\ taken \in 0 .. Len(directory)
    /\ stage \in {"called", "reading", "allocating", "parsing", "storing", "analyzing", "returned", "destroyed"}

\* How far a scan s has come at stage place, with c entries in hand of the k that the
\* kernel has returned: what is returned, chained and analyzed, in this order.
Come(place, r, s, k, c) ==
    /\ place = "called" => s = EmptyScan
    /\ place \in {"called", "reading"} => Chained(s, k) /\ Summed(s, k)
    /\ place \in {"allocating", "parsing", "storing"} =>
          c \in 1 .. k /\ Chained(s, k - c) /\ Summed(s, k - c)
    /\ place = "analyzing" =>
          /\ c \in 1 .. k /\ Chained(s, k) /\ Summed(s, k - c)
          /\ Last(s.batches) = SubSeq(directory, k - c + 1, k)
    /\ place = "returned" /\ r = "ok" => Chained(s, Len(directory)) /\ Summed(s, Len(directory))

Progress == Come(stage, result, scan, taken, count)

\* What the call has besides the scan.
Buffer == {<<"buffer", 0>>}
HalfBuilt(s) == {<<"batch", Batches(s) + 1>>, <<"columns", Batches(s) + 1>>}

Holds(place, s, blocks) ==
    /\ place = "called" => blocks = {}
    /\ place \in {"reading", "allocating", "analyzing"} => blocks = ScanBlocks(s) \cup Buffer
    /\ place \in {"parsing", "storing"} => blocks = ScanBlocks(s) \cup HalfBuilt(s) \cup Buffer
    /\ place = "returned" => blocks = ScanBlocks(s)
    /\ place = "destroyed" => blocks = {}

Heap == Holds(stage, scan, live)

ScanInv == ScanTypes /\ Progress /\ Heap
-----------------------------------------------------------------------------
LEMMA EmptyScanIsEmpty ==
    /\ EmptyScan \in Scans /\ EmptyScan.batches = <<>> /\ EmptyScan.entries = 0
    /\ Describes(EmptyScan, 0) /\ ScanBlocks(EmptyScan) = {}
<1>1. EmptyScan \in Scans
  <2>1. <<>> \in Seq(Seq(Entry)) /\ <<>> \in Seq(Nat) /\ <<>> \in Seq(ErrorCounts)
    BY EmptySeq
  <2> QED BY <2>1 DEF EmptyScan, Scans
<1>2. 1 .. 0 = {} /\ Cardinality({}) = 0 /\ DOMAIN <<>> = {} /\ Len(<<>>) = 0
  BY FS_EmptySet, EmptySeq
<1>3. CountsAre(EmptyScan, 0)
  BY <1>2 DEF EmptyScan, CountsAre
<1>4. ChildrenAre(EmptyScan, 0)
  BY <1>2 DEF EmptyScan, ChildrenAre
<1>5. ErrorsAre(EmptyScan, 0)
  BY <1>2 DEF EmptyScan, ErrorsAre
<1>6. TablesHold(EmptyScan)
  BY <1>2 DEF EmptyScan, TablesHold
<1>7. ScanBlocks(EmptyScan) = {}
  BY <1>2 DEF EmptyScan, ScanBlocks, CapacityBlocks
<1> QED BY <1>1, <1>3, <1>4, <1>5, <1>6, <1>7 DEF Describes, EmptyScan

LEMMA ScanBegins == ASSUME ScanInit PROVE ScanInv
<1>1. directory \in Seq(Entry) /\ Len(directory) \in Nat
  BY DirectoriesAssumption, LenProperties DEF ScanInit
<1>2. ScanTypes
  BY <1>1, EmptyScanIsEmpty DEF ScanInit, ScanTypes
<1>3. Chained(scan, 0)
  <2>1. FlattenSeq(<<>>) = <<>>
    BY FlattenAppends, EmptySeq
  <2>2. SubSeq(directory, 1, 0) = <<>>
    BY <1>1, SubSeqProperties
  <2> QED BY <2>1, <2>2, EmptyScanIsEmpty DEF ScanInit, Chained
<1>4. Summed(scan, 0)
  BY EmptyScanIsEmpty DEF ScanInit, Summed
<1>5. Progress /\ Heap
  BY <1>3, <1>4 DEF ScanInit, Progress, Come, Heap, Holds
<1> QED BY <1>2, <1>5 DEF ScanInv

\* No block of the scan is the buffer or belongs to the batch in hand.
LEMMA KeptIsOther ==
    ASSUME NEW s \in Scans
    PROVE  /\ ScanBlocks(s) \cap Buffer = {} /\ ScanBlocks(s) \cap HalfBuilt(s) = {} /\ HalfBuilt(s) \cap Buffer = {}
           /\ <<"batch", Batches(s) + 1>> \notin ScanBlocks(s)
<1>1. Len(s.batches) \in Nat /\ DOMAIN s.batches = 1 .. Len(s.batches)
  BY LenProperties DEF Scans
<1>2. \A x \in ScanBlocks(s) : \/ \E n \in DOMAIN s.batches : x \in BatchBlocks(n)
                         \/ x = <<"children", 0>> \/ x = <<"errors", 0>>
  <2> SUFFICES ASSUME NEW x \in ScanBlocks(s)
               PROVE  \/ \E n \in DOMAIN s.batches : x \in BatchBlocks(n)
                      \/ x = <<"children", 0>> \/ x = <<"errors", 0>>
    OBVIOUS
  <2>1. CASE x \in CapacityBlocks(s)
    BY <2>1 DEF CapacityBlocks
  <2>2. CASE x \in UNION {BatchBlocks(n) : n \in DOMAIN s.batches}
    BY <2>2
  <2> DEFINE blocks == UNION {BatchBlocks(n) : n \in DOMAIN s.batches}
  <2>3. x \in blocks \/ x \in CapacityBlocks(s)
    BY Zenon DEF ScanBlocks
  <2> QED BY <2>1, <2>2, <2>3
<1>3. \A n \in DOMAIN s.batches : n # Len(s.batches) + 1
  BY <1>1
<1> QED BY <1>2, <1>3 DEF Buffer, HalfBuilt, BatchBlocks, Batches

\* Tables only grow while a batch is analyzed.
LEMMA KeptGrows ==
    ASSUME NEW s \in Scans, NEW t, Later(s, t)
    PROVE  ScanBlocks(t) = ScanBlocks(s) \cup CapacityBlocks(t)
<1>0. /\ s.child_capacity \in Nat /\ s.error_capacity \in Nat
      /\ t.child_capacity \in Nat /\ t.error_capacity \in Nat
  BY DEF Later, Scans
<1>2. s.child_capacity <= t.child_capacity /\ s.error_capacity <= t.error_capacity
      /\ DOMAIN t.batches = DOMAIN s.batches
  BY DEF Later
<1>1. CapacityBlocks(s) \subseteq CapacityBlocks(t)
  <2>1. s.child_capacity > 0 => t.child_capacity > 0
    BY <1>0, <1>2
  <2>2. s.error_capacity > 0 => t.error_capacity > 0
    BY <1>0, <1>2
  <2> QED BY <2>1, <2>2 DEF CapacityBlocks
<1> DEFINE blocks(u) == UNION {BatchBlocks(n) : n \in DOMAIN u.batches}
<1>3. blocks(t) = blocks(s)
  BY <1>2
<1>4. ScanBlocks(s) = blocks(s) \cup CapacityBlocks(s) /\ ScanBlocks(t) = blocks(t) \cup CapacityBlocks(t)
  BY Zenon DEF ScanBlocks
<1> HIDE DEF blocks
<1> QED BY <1>1, <1>3, <1>4

\* A description is about the columns and tables of a scan.
LEMMA DescriptionOfColumns ==
    ASSUME NEW s, NEW t,
           t.children = s.children, t.child_capacity = s.child_capacity,
           t.errors = s.errors, t.error_capacity = s.error_capacity,
           t.regular_files = s.regular_files, t.directories = s.directories,
           t.symlinks = s.symlinks, t.other = s.other,
           t.metadata_errors = s.metadata_errors, t.skipped_mounts = s.skipped_mounts
    PROVE  \A n : Describes(s, n) => Describes(t, n)
<1> SUFFICES ASSUME NEW n, Describes(s, n) PROVE Describes(t, n)
  OBVIOUS
<1>1. CountsAre(t, n)
  BY DEF Describes, CountsAre
<1>2. ChildrenAre(t, n)
  BY DEF Describes, ChildrenAre
<1>3. ErrorsAre(t, n)
  <2> DEFINE with(number) == {i \in 1 .. n : directory[i].error = number}
             P(errors, total) ==
               /\ total = Cardinality((1 .. n) \ with(0))
               /\ \A i \in (1 .. n) \ with(0) :
                     \E k \in DOMAIN errors : errors[k].error_number = directory[i].error
               /\ \A k \in DOMAIN errors :
                     /\ errors[k].error_number # 0
                     /\ errors[k].count = Cardinality(with(errors[k].error_number)) /\ errors[k].count # 0
                     /\ \A m \in DOMAIN errors : errors[m].error_number = errors[k].error_number => m = k
  <2>1. P(s.errors, s.metadata_errors)
    BY DEF Describes, ErrorsAre
  <2>2. P(t.errors, t.metadata_errors)
    <3> HIDE DEF P
    <3> QED BY <2>1
  <2> QED BY <2>2 DEF ErrorsAre
<1>4. TablesHold(t)
  BY DEF Describes, TablesHold
<1> QED BY <1>1, <1>2, <1>3, <1>4 DEF Describes

\* Two pieces of a sequence that meet.
LEMMA SubSeqJoins ==
    ASSUME NEW X, NEW s \in Seq(X), NEW m \in Nat, NEW n \in 0 .. Len(s), m <= n
    PROVE  SubSeq(s, 1, m) \o SubSeq(s, m + 1, n) = SubSeq(s, 1, n)
<1> DEFINE a == SubSeq(s, 1, m)
           b == SubSeq(s, m + 1, n)
           c == SubSeq(s, 1, n)
<1>1. Len(s) \in Nat
  BY LenProperties
<1>2. a \in Seq(X) /\ Len(a) = m /\ \A i \in 1 .. m : a[i] = s[i]
  BY <1>1, SubSeqProperties
<1>3. b \in Seq(X) /\ Len(b) = n - m /\ \A i \in 1 .. n - m : b[i] = s[m + i]
  <2>1. b \in Seq(X) /\ Len(b) = (IF m + 1 <= n THEN n - (m + 1) + 1 ELSE 0)
        /\ \A i \in 1 .. n - (m + 1) + 1 : b[i] = s[(m + 1) + i - 1]
    BY <1>1, SubSeqProperties
  <2>2. n - (m + 1) + 1 = n - m /\ \A i \in 1 .. n - m : (m + 1) + i - 1 = m + i
    BY <1>1
  <2>3. Len(b) = n - m
    BY <1>1, <2>1
  <2> QED BY <2>1, <2>2, <2>3
<1>4. c \in Seq(X) /\ Len(c) = n /\ \A i \in 1 .. n : c[i] = s[i]
  BY <1>1, SubSeqProperties
<1> HIDE DEF a, b, c
<1>5. /\ a \o b \in Seq(X) /\ Len(a \o b) = Len(a) + Len(b)
      /\ \A i \in 1 .. Len(a) + Len(b) : (a \o b)[i] = IF i <= Len(a) THEN a[i] ELSE b[i - Len(a)]
  BY SMTT(30), ZenonT(30), <1>2, <1>3, ConcatProperties
<1>6. Len(a) + Len(b) = n
  BY <1>1, <1>2, <1>3
<1>7. ASSUME NEW i \in 1 .. n PROVE (a \o b)[i] = c[i]
  <2>0. (a \o b)[i] = (IF i <= m THEN a[i] ELSE b[i - m]) /\ c[i] = s[i]
    <3>1. i \in 1 .. Len(a) + Len(b)
      BY <1>6
    <3> QED BY <1>2, <1>4, <1>5, <3>1
  <2>1. CASE i <= m
    <3>1. i \in 1 .. m
      BY <2>1
    <3> QED BY <1>2, <2>0, <2>1, <3>1
  <2>2. CASE ~ (i <= m)
    <3>1. i - m \in 1 .. n - m /\ m + (i - m) = i
      BY <1>1, <2>2
    <3>2. b[i - m] = s[m + (i - m)]
      BY <1>3, <3>1
    <3> QED BY <2>0, <2>2, <3>1, <3>2
  <2> QED BY <2>1, <2>2
<1>8. a \o b = c
  BY <1>4, <1>5, <1>6, <1>7, SeqEqual
<1> QED BY <1>8 DEF a, b, c

\* The number of analyzed entries is no part of the description.
LEMMA SameDescription ==
    ASSUME NEW s \in Scans, NEW k \in Nat, NEW t, t = [s EXCEPT !.entries = k]
    PROVE  /\ t \in Scans /\ t.batches = s.batches /\ t.entries = k
           /\ t.child_capacity = s.child_capacity /\ t.error_capacity = s.error_capacity
           /\ \A n : Describes(s, n) => Describes(t, n)
<1>1. t \in Scans
  BY CountersAreNumbers
<1>2. /\ t.batches = s.batches /\ t.entries = k /\ t.children = s.children /\ t.errors = s.errors
      /\ t.child_capacity = s.child_capacity /\ t.error_capacity = s.error_capacity
      /\ t.regular_files = s.regular_files /\ t.directories = s.directories
      /\ t.symlinks = s.symlinks /\ t.other = s.other
      /\ t.metadata_errors = s.metadata_errors /\ t.skipped_mounts = s.skipped_mounts
  BY DEF Scans
<1>3. \A n : Describes(s, n) => Describes(t, n)
  BY <1>2, DescriptionOfColumns
<1> QED BY <1>1, <1>2, <1>3

\* A batch that is chained brings three blocks.
OneMore(s, b, t) ==
    /\ t \in Scans /\ ScanBlocks(t) = ScanBlocks(s) \cup BatchBlocks(Batches(s) + 1)
    /\ t.entries = s.entries /\ Last(t.batches) = b
    /\ t.batches = Append(s.batches, b)
    /\ \A n : Describes(s, n) => Describes(t, n)

LEMMA KeptOfOneMore ==
    ASSUME NEW s \in Scans, NEW b \in Seq(Entry)
    PROVE  OneMore(s, b, [s EXCEPT !.batches = Append(s.batches, b)])
<1> DEFINE t == [s EXCEPT !.batches = Append(s.batches, b)]
<1> SUFFICES OneMore(s, b, t)
  OBVIOUS
<1> DEFINE bs == Append(s.batches, b)
<1>1. /\ s.batches \in Seq(Seq(Entry)) /\ Len(s.batches) \in Nat
      /\ bs \in Seq(Seq(Entry)) /\ Len(bs) = Len(s.batches) + 1 /\ bs[Len(s.batches) + 1] = b
      /\ DOMAIN s.batches = 1 .. Len(s.batches)
      /\ DOMAIN bs = 1 .. Len(s.batches) + 1
  BY AppendProperties, LenProperties DEF Scans
<1> HIDE DEF bs
<1>2. t = [s EXCEPT !.batches = bs]
  BY DEF bs
<1> HIDE DEF t
<1>3. t \in Scans /\ t.batches = bs
  BY <1>1, <1>2 DEF Scans
<1>4. /\ t.entries = s.entries /\ t.children = s.children /\ t.errors = s.errors
      /\ t.child_capacity = s.child_capacity /\ t.error_capacity = s.error_capacity
      /\ t.regular_files = s.regular_files /\ t.directories = s.directories
      /\ t.symlinks = s.symlinks /\ t.other = s.other
      /\ t.metadata_errors = s.metadata_errors /\ t.skipped_mounts = s.skipped_mounts
  BY <1>2 DEF Scans
<1>5. \A n : Describes(s, n) => Describes(t, n)
  BY <1>4, DescriptionOfColumns
<1>6. ScanBlocks(t) = ScanBlocks(s) \cup BatchBlocks(Batches(s) + 1)
  <2>1. DOMAIN t.batches = DOMAIN s.batches \cup {Batches(s) + 1}
    BY SMTT(30), ZenonT(30), <1>1, <1>3 DEF Batches
  <2>2. CapacityBlocks(t) = CapacityBlocks(s)
    BY <1>4 DEF CapacityBlocks
  <2> QED BY <2>1, <2>2 DEF ScanBlocks
<1>7. Last(t.batches) = b
  BY <1>1, <1>3 DEF Last
<1> QED BY <1>3, <1>4, <1>5, <1>6, <1>7 DEF bs, OneMore
-----------------------------------------------------------------------------
\* What is read and how stays the same during a call.
LEMMA ArgumentsStay == ASSUME [ScanNext]_scan_vars PROVE UNCHANGED arguments
BY DEF ScanNext, scan_vars, RefuseArguments, Begin, ReadBuffer, GrowBuffer, ReadFails, ReadEnds,
       AllocateBatch, ParseRecords, StoreBatch, AnalyzeBatch, AnalysisFails, Destroy

LEMMA DescribesFixed ==
    ASSUME UNCHANGED arguments, NEW CONSTANT s, NEW CONSTANT n, Describes(s, n)
    PROVE  Describes(s, n)'
<1>1. directory' = directory /\ \A e : Traversed(e)' <=> Traversed(e)
  BY DEF arguments, Traversed
<1>2. CountsAre(s, n)'
  BY <1>1 DEF Describes, CountsAre
<1>3. ChildrenAre(s, n)'
  BY <1>1 DEF Describes, ChildrenAre
<1>4. ErrorsAre(s, n)'
  BY <1>1 DEF Describes, ErrorsAre
<1>5. TablesHold(s)'
  BY DEF Describes, TablesHold
<1> QED BY <1>2, <1>3, <1>4, <1>5 DEF Describes

\* So it is enough to say of the next state what it has come to.
LEMMA ProgressFixed ==
    ASSUME UNCHANGED arguments, Come(stage', result', scan', taken', count')
    PROVE  Progress'
<1>1. PICK s, k, c, place, r : s = scan' /\ k = taken' /\ c = count' /\ place = stage' /\ r = result'
  OBVIOUS
<1>2. Come(place, r, s, k, c)
  BY <1>1
<1>3. directory' = directory
  BY DEF arguments
<1>4. \A n : Describes(s, n) => Describes(s, n)'
  BY DescribesFixed
<1>5. \A n : Chained(s, n) => Chained(s, n)'
  BY <1>3 DEF Chained
<1>6. \A n : Summed(s, n) => Summed(s, n)'
  BY <1>4 DEF Summed
<1>7. Come(place, r, s, k, c)'
  BY <1>2, <1>3, <1>5, <1>6 DEF Come
<1> QED BY <1>1, <1>7 DEF Progress

\* The start of a call, its end and the reading of a buffer.
LEMMA ReadingStep ==
    ASSUME ScanInv,
           RefuseArguments \/ Begin \/ ReadBuffer \/ GrowBuffer \/ ReadFails \/ ReadEnds \/ Destroy
    PROVE  /\ ScanTypes'
           /\ Come(stage', result', scan', taken', count')
           /\ Holds(stage', scan', live')
<1>1. Len(directory) \in Nat /\ taken \in 0 .. Len(directory) /\ directory \in Seq(Entry) /\ scan \in Scans
  BY LenProperties DEF ScanInv, ScanTypes
<1>2. stage = "called" => scan = EmptyScan /\ ScanBlocks(scan) = {} /\ live = {} /\ Chained(scan, taken) /\ Summed(scan, taken)
  BY EmptyScanIsEmpty DEF ScanInv, Progress, Come, Heap, Holds
<1>3. stage = "reading" => live = ScanBlocks(scan) \cup Buffer /\ Chained(scan, taken) /\ Summed(scan, taken)
  BY DEF ScanInv, Progress, Come, Heap, Holds
<1>4. ScanBlocks(scan) \cap Buffer = {}
  BY <1>1, KeptIsOther
<1> DEFINE Goal == /\ ScanTypes'
                   /\ Come(stage', result', scan', taken', count')
                   /\ Holds(stage', scan', live')
<1>5. CASE RefuseArguments
  BY <1>1, <1>2, <1>5 DEF RefuseArguments, Return, ScanTypes, arguments, Come, Holds
<1>6. CASE Begin
  BY <1>1, <1>2, <1>6 DEF Begin, Return, ScanTypes, arguments, Come, Holds, Buffer
<1>7. CASE ReadBuffer
  <2>1. PICK n \in 1 .. Len(directory) : Fits(n) /\ count' = n /\ taken' = taken + n
    BY <1>7 DEF ReadBuffer
  <2>2. taken + n <= Len(directory)
    BY <2>1 DEF Fits
  <2>3. /\ stage = "reading" /\ stage' = "allocating"
        /\ UNCHANGED <<directory, scan, result, live>>
    BY <1>7 DEF ReadBuffer, arguments
  <2>4. taken' \in 0 .. Len(directory) /\ count' \in 1 .. taken' /\ taken' - count' = taken
    BY <1>1, <2>1, <2>2
  <2> QED BY <1>1, <1>3, <2>3, <2>4 DEF ScanTypes, Come, Holds
<1>8. CASE GrowBuffer
  <2>1. CASE UNCHANGED <<stage, result, live>>
    BY <1>1, <1>3, <1>8, <2>1 DEF GrowBuffer, ScanTypes, arguments, Come, Holds
  <2>2. CASE Leave("out_of_memory", {})
    BY <1>1, <1>3, <1>4, <1>8, <2>2 DEF GrowBuffer, Leave, Return, ScanTypes, arguments, Come, Holds, Buffer
  <2> QED BY <1>8, <2>1, <2>2 DEF GrowBuffer
<1>9. CASE ReadFails
  BY <1>1, <1>3, <1>4, <1>9 DEF ReadFails, Leave, Return, ScanTypes, arguments, Come, Holds, Buffer
<1>10. CASE ReadEnds
  BY <1>1, <1>3, <1>4, <1>10 DEF ReadEnds, Leave, Return, ScanTypes, arguments, Come, Holds, Buffer
<1>11. CASE Destroy
  <2>1. live = ScanBlocks(scan)
    BY <1>11 DEF Destroy, ScanInv, Heap, Holds
  <2> QED BY <1>1, <1>11, <2>1, EmptyScanIsEmpty DEF Destroy, ScanTypes, arguments, Come, Holds
<1> QED BY <1>5, <1>6, <1>7, <1>8, <1>9, <1>10, <1>11

\* A batch is built, chained and analyzed.
LEMMA BatchStep ==
    ASSUME ScanInv,
           AllocateBatch \/ ParseRecords \/ StoreBatch \/ AnalyzeBatch \/ AnalysisFails
    PROVE  /\ ScanTypes'
           /\ Come(stage', result', scan', taken', count')
           /\ Holds(stage', scan', live')
<1>1. Len(directory) \in Nat /\ taken \in 0 .. Len(directory) /\ directory \in Seq(Entry) /\ scan \in Scans
  BY LenProperties DEF ScanInv, ScanTypes
<1>2. stage \in {"allocating", "parsing", "storing"} =>
         count \in 1 .. taken /\ Chained(scan, taken - count) /\ Summed(scan, taken - count)
  BY DEF ScanInv, Progress, Come
<1>3. /\ stage = "allocating" => live = ScanBlocks(scan) \cup Buffer
      /\ stage \in {"parsing", "storing"} => live = ScanBlocks(scan) \cup HalfBuilt(scan) \cup Buffer
      /\ stage = "analyzing" => live = ScanBlocks(scan) \cup Buffer
  BY DEF ScanInv, Heap, Holds
<1>4. /\ ScanBlocks(scan) \cap Buffer = {} /\ ScanBlocks(scan) \cap HalfBuilt(scan) = {}
      /\ HalfBuilt(scan) \cap Buffer = {} /\ <<"batch", InHand>> \notin ScanBlocks(scan)
      /\ HalfBuilt(scan) = {<<"batch", InHand>>, <<"columns", InHand>>}
      /\ Buffer = {<<"buffer", 0>>}
  BY <1>1, KeptIsOther DEF InHand, HalfBuilt, Buffer
<1>5. CASE AllocateBatch
  <2>1. stage = "allocating" /\ UNCHANGED <<directory, taken, count, scan>>
    BY <1>5 DEF AllocateBatch, arguments
  <2>2. CASE live' = live \cup {<<"batch", InHand>>, <<"columns", InHand>>} /\ stage' = "parsing"
    BY <1>1, <1>2, <1>3, <1>4, <2>1, <2>2 DEF ScanTypes, Come, Holds
  <2>3. CASE Leave("invalid_record", {})
    BY <1>1, <1>3, <1>4, <2>1, <2>3 DEF Leave, Return, ScanTypes, Come, Holds
  <2>4. CASE Leave("out_of_memory", {<<"batch", InHand>>})
    BY <1>1, <1>3, <1>4, <2>1, <2>4 DEF Leave, Return, ScanTypes, Come, Holds
  <2> QED BY <1>5, <2>2, <2>3, <2>4 DEF AllocateBatch
<1>6. CASE ParseRecords
  <2>1. stage = "parsing" /\ UNCHANGED <<directory, taken, count, scan>>
    BY <1>6 DEF ParseRecords, arguments
  <2>2. CASE stage' = "storing" /\ live' = live
    BY <1>1, <1>2, <1>3, <1>4, <2>1, <2>2 DEF ScanTypes, Come, Holds
  <2>3. CASE Leave("invalid_record", {<<"batch", InHand>>, <<"columns", InHand>>})
    BY <1>1, <1>3, <1>4, <2>1, <2>3 DEF Leave, Return, ScanTypes, Come, Holds
  <2> QED BY <1>6, <2>2, <2>3 DEF ParseRecords
<1>7. CASE StoreBatch
  <2> DEFINE piece == SubSeq(directory, taken - count + 1, taken)
  <2>1. stage = "storing" /\ UNCHANGED <<directory, taken, count>>
    BY <1>7 DEF StoreBatch, arguments
  <2>2. CASE /\ scan' = [scan EXCEPT !.batches = Append(scan.batches, piece)]
             /\ live' = live \cup {<<"storage", InHand>>} /\ stage' = "analyzing"
    <3>1. count \in 1 .. taken /\ Chained(scan, taken - count) /\ Summed(scan, taken - count)
      BY <1>2, <2>1
    <3>2. piece \in Seq(Entry)
      BY <1>1, <3>1, SubSeqProperties
    <3>3. /\ scan' \in Scans /\ ScanBlocks(scan') = ScanBlocks(scan) \cup BatchBlocks(Batches(scan) + 1)
          /\ scan'.entries = scan.entries /\ Last(scan'.batches) = piece
          /\ scan'.batches = Append(scan.batches, piece)
          /\ \A n : Describes(scan, n) => Describes(scan', n)
      <4> HIDE DEF piece
      <4>1. OneMore(scan, piece, [scan EXCEPT !.batches = Append(scan.batches, piece)])
        BY <1>1, <3>2, KeptOfOneMore
      <4>2. OneMore(scan, piece, scan')
        BY <2>2, <4>1
      <4> QED BY <4>2 DEF OneMore
    <3>4. Chained(scan', taken)
      <4>1. scan.batches \in Seq(Seq(Entry))
        BY <1>1 DEF Scans
      <4>2. FlattenSeq(scan'.batches) = FlattenSeq(scan.batches) \o piece
        <5> HIDE DEF piece
        <5> QED BY <3>2, <3>3, <4>1, FlattenAppends
      <4>3. SubSeq(directory, 1, taken - count) \o piece = SubSeq(directory, 1, taken)
        BY <1>1, <3>1, SubSeqJoins
      <4> QED BY <3>1, <4>2, <4>3 DEF Chained
    <3>5. Summed(scan', taken - count)
      BY <3>1, <3>3 DEF Summed
    <3>6. live' = ScanBlocks(scan') \cup Buffer
      <4>1. live' = (ScanBlocks(scan) \cup HalfBuilt(scan) \cup Buffer) \cup {<<"storage", InHand>>}
        BY <1>3, <2>1, <2>2
      <4>2. BatchBlocks(Batches(scan) + 1) = HalfBuilt(scan) \cup {<<"storage", InHand>>}
        BY DEF BatchBlocks, HalfBuilt, InHand
      <4> QED BY <3>3, <4>1, <4>2
    <3> HIDE DEF piece
    <3>7. Last(scan'.batches) = SubSeq(directory, taken - count + 1, taken)
      BY <3>3 DEF piece
    <3> QED BY <1>1, <2>1, <2>2, <3>1, <3>3, <3>4, <3>5, <3>6, <3>7 DEF ScanTypes, Come, Holds
  <2>3. CASE Leave("out_of_memory", {<<"batch", InHand>>, <<"columns", InHand>>}) /\ scan' = scan
    BY <1>1, <1>3, <1>4, <2>1, <2>3 DEF Leave, Return, ScanTypes, Come, Holds
  <2> QED BY <1>7, <2>2, <2>3 DEF StoreBatch
<1>8. ASSUME stage = "analyzing"
      PROVE  /\ count \in 1 .. taken /\ Len(Last(scan.batches)) = count
             /\ Chained(scan, taken) /\ scan.entries = taken - count /\ taken - count \in Nat
             /\ \A n \in 0 .. count :
                   /\ Later(scan, Turns(scan, Last(scan.batches), scan.entries)[n])
                   /\ Describes(Turns(scan, Last(scan.batches), scan.entries)[n], scan.entries + n)
  <2> DEFINE piece == Last(scan.batches)
  <2>1. /\ count \in 1 .. taken /\ Chained(scan, taken) /\ Summed(scan, taken - count)
        /\ piece = SubSeq(directory, taken - count + 1, taken)
    BY <1>8 DEF ScanInv, Progress, Come
  <2>2. taken - count + 1 \in 1 .. Len(directory) /\ taken \in 1 .. Len(directory) /\ taken - count \in Nat
        /\ taken - (taken - count + 1) + 1 = count /\ count \in Nat /\ taken - count + count = taken
    BY <1>1, <2>1
  <2>3. Len(piece) = count /\ \A i \in 1 .. count : piece[i] = directory[(taken - count) + i]
    <3>1. /\ Len(piece) = taken - (taken - count + 1) + 1
          /\ \A i \in 1 .. taken - (taken - count + 1) + 1 : piece[i] = directory[(taken - count + 1) + i - 1]
      BY <1>1, <2>1, <2>2, SubSeqProperties
    <3>2. \A i \in 1 .. count : (taken - count + 1) + i - 1 = (taken - count) + i
      BY <1>1, <2>2
    <3> QED BY <2>2, <3>1, <3>2
  <2>4. scan.entries = taken - count /\ Describes(scan, scan.entries)
    BY <2>1 DEF Summed
  <2>5. taken - count + count <= Len(directory)
    BY <1>1, <2>2
  <2> HIDE DEF piece
  <2>6. \A n \in 0 .. Len(piece) : /\ Later(scan, Turns(scan, piece, scan.entries)[n])
                                   /\ Describes(Turns(scan, piece, scan.entries)[n], scan.entries + n)
    BY <1>1, <2>2, <2>3, <2>4, <2>5, TurnsDescribe
  <2> QED BY <2>1, <2>2, <2>3, <2>4, <2>6 DEF piece
<1>9. CASE AnalyzeBatch
  <2> DEFINE turned == Turns(scan, Last(scan.batches), scan.entries)[count]
             analyzed == [turned EXCEPT !.entries = turned.entries + count]
  <2>1. stage = "analyzing" /\ UNCHANGED <<directory, taken, count>>
    BY <1>9 DEF AnalyzeBatch, arguments
  <2>2. /\ count \in 1 .. taken /\ Len(Last(scan.batches)) = count
        /\ Chained(scan, taken) /\ scan.entries = taken - count /\ taken - count \in Nat
        /\ count \in 0 .. count
    BY <1>1, <1>8, <2>1
  <2>3. Later(scan, turned) /\ Describes(turned, scan.entries + count)
    BY <1>8, <2>1, <2>2
  <2>4. Analyzed(scan, Last(scan.batches)) = analyzed
    BY <2>2 DEF Analyzed
  <2> HIDE DEF turned
  <2>5. turned.entries = taken - count /\ scan.entries + count = taken /\ turned.entries + count = taken
    BY <1>1, <2>2, <2>3 DEF Later
  <2>6. analyzed = [turned EXCEPT !.entries = taken]
    BY <2>5
  <2> HIDE DEF analyzed
  <2>7. /\ analyzed \in Scans /\ analyzed.batches = scan.batches /\ analyzed.entries = taken
        /\ analyzed.child_capacity = turned.child_capacity /\ analyzed.error_capacity = turned.error_capacity
        /\ \A n : Describes(turned, n) => Describes(analyzed, n)
    <3>1. taken \in Nat /\ turned \in Scans /\ turned.batches = scan.batches
      BY <1>1, <2>3 DEF Later
    <3> QED BY <2>6, <3>1, SameDescription
  <2>8. Later([scan EXCEPT !.entries = taken], analyzed) /\ ScanBlocks(analyzed) = ScanBlocks(scan) \cup CapacityBlocks(analyzed)
    <3>1. Later(scan, turned)
      BY <2>3
    <3>2. ScanBlocks(turned) = ScanBlocks(scan) \cup CapacityBlocks(turned)
      BY <1>1, <3>1, KeptGrows
    <3>3. CapacityBlocks(analyzed) = CapacityBlocks(turned) /\ analyzed.batches = turned.batches
      BY <2>7, <3>1 DEF CapacityBlocks, Later
    <3>4. ScanBlocks(analyzed) = ScanBlocks(turned)
      BY <3>3 DEF ScanBlocks
    <3>5. Later([scan EXCEPT !.entries = taken], analyzed)
      BY <1>1, <2>7, <3>1 DEF Later, Scans
    <3> QED BY <3>2, <3>3, <3>4, <3>5
  <2>9. CASE /\ scan' = analyzed /\ live' = live \cup CapacityBlocks(analyzed)
             /\ stage' = "reading"
    <3>1. live' = ScanBlocks(scan') \cup Buffer
      BY <1>3, <2>1, <2>8, <2>9
    <3>2. Chained(scan', taken) /\ Summed(scan', taken)
      BY <2>2, <2>3, <2>5, <2>7, <2>9 DEF Chained, Summed
    <3> QED BY <1>1, <2>1, <2>7, <2>9, <3>1, <3>2 DEF ScanTypes, Come, Holds
  <2>10. CASE Leave("out_of_memory", {}) /\ scan' = scan
    BY <1>1, <1>3, <1>4, <2>1, <2>10 DEF Leave, Return, ScanTypes, Come, Holds
  <2> QED BY <1>9, <2>4, <2>9, <2>10 DEF AnalyzeBatch
<1>10. CASE AnalysisFails
  <2> DEFINE after == Turns(scan, Last(scan.batches), scan.entries)
  <2>1. stage = "analyzing" /\ UNCHANGED <<directory, taken, count>>
    BY <1>10 DEF AnalysisFails, arguments
  <2>2. PICK n \in 1 .. count :
          /\ scan' = after[n - 1] /\ stage' = "returned" /\ result' = "out_of_memory"
          /\ live' = (live \ {<<"buffer", 0>>}) \cup CapacityBlocks(after[n - 1])
    BY <1>10 DEF AnalysisFails, Return
  <2>3. n - 1 \in 0 .. count
    BY <1>1, <1>8, <2>1
  <2>4. Later(scan, scan')
    BY <1>8, <2>1, <2>2, <2>3
  <2> HIDE DEF after
  <2>5. ScanBlocks(scan') = ScanBlocks(scan) \cup CapacityBlocks(scan')
    BY <1>1, <2>4, KeptGrows
  <2>6. live' = ScanBlocks(scan')
    BY <1>3, <1>4, <2>1, <2>2, <2>5
  <2>7. scan' \in Scans
    BY <2>4 DEF Later
  <2> QED BY <1>1, <2>1, <2>2, <2>6, <2>7 DEF ScanTypes, Come, Holds
<1> QED BY <1>5, <1>6, <1>7, <1>9, <1>10

LEMMA ScanStep ==
    ASSUME ScanInv, [ScanNext]_scan_vars
    PROVE  ScanInv'
<1>1. CASE UNCHANGED scan_vars
  <2>1. UNCHANGED arguments /\ UNCHANGED <<taken, stage, count, scan, result, live>>
    BY <1>1 DEF scan_vars
  <2>2. Progress'
    BY <2>1, ProgressFixed DEF ScanInv, Progress
  <2>3. ScanTypes' /\ Heap'
    BY <2>1 DEF ScanInv, ScanTypes, Heap, arguments
  <2> QED BY <2>2, <2>3 DEF ScanInv
<1>2. CASE ScanNext
  <2>1. ScanTypes' /\ Come(stage', result', scan', taken', count') /\ Holds(stage', scan', live')
    BY <1>2, ReadingStep, BatchStep DEF ScanNext
  <2>2. Progress'
    BY <2>1, ArgumentsStay, ProgressFixed
  <2> QED BY <2>1, <2>2 DEF ScanInv, Heap
<1> QED BY <1>1, <1>2

\* However the kernel cuts a directory into buffers, and whatever allocation
\* fails, a scan leaves exactly what it read and frees the rest: for every set
\* of directories, sizes of buffers and first capacities.
THEOREM ScansLeaveWhatTheyRead == ScanSpec => []ScansAreClean
<1>1. ScanInit => ScanInv
  BY ScanBegins
<1>2. ScanInv /\ [ScanNext]_scan_vars => ScanInv'
  BY ScanStep
<1>3. ScanInv => ScansAreClean
  <2> SUFFICES ASSUME ScanInv PROVE ScansAreClean
    OBVIOUS
  <2>1. HeapIsClean
    BY DEF ScanInv, Heap, Holds, HeapIsClean
  <2>2. ScanIsExact
    BY DEF ScanInv, Progress, Come, Chained, Summed, ScanIsExact
  <2> QED BY <2>1, <2>2 DEF ScansAreClean
<1> QED BY <1>1, <1>2, <1>3, PTL DEF ScanSpec
-----------------------------------------------------------------------------
(* StoreCleanup *)

Stages == {"unborn", "live", "released", "enqueuing", "gone"}

CleanupTypes ==
    /\ store \in [Stores -> Stages] /\ job \subseteq Stores
    /\ next \in [Stores -> Stores \cup {NO_STORE}]
    /\ head \in Stores \cup {NO_STORE} /\ tail \in Stores \cup {NO_STORE}
    /\ stopping \in BOOLEAN
    /\ thread \in [at : {"checking", "freeing", "waiting", "exited"}, job : Stores \cup {NO_STORE}]
    /\ context \in {"loaded", "stopping", "freed"}
    /\ frees \in [Stores -> Nat]

\* The list as a sequence of jobs: from head along next to tail, each waiting
\* job once.
IsList(q) ==
    /\ q \in Seq(Stores)
    /\ \A i, j \in 1 .. Len(q) : q[i] = q[j] => i = j
    /\ \A s \in Stores : s \in Waiting <=> \E i \in 1 .. Len(q) : q[i] = s
    /\ head = IF Len(q) = 0 THEN NO_STORE ELSE q[1]
    /\ tail = IF Len(q) = 0 THEN NO_STORE ELSE q[Len(q)]
    /\ \A i \in 1 .. Len(q) - 1 : next[q[i]] = q[i + 1]
    /\ Len(q) # 0 => next[q[Len(q)]] = NO_STORE

\* The thread holds a job while it frees one, a job that nobody has freed; it
\* leaves after the stop, with nothing left in the list.
ThreadHoldsItsJob ==
    /\ thread.at = "freeing" => thread.job \in Stores /\ store[thread.job] = "gone" /\ frees[thread.job] = 0
    /\ thread.at # "freeing" => thread.job = NO_STORE
    /\ thread.at = "exited" => stopping /\ head = NO_STORE

\* After the library has begun to unload there is no store left to destruct.
UnloadComesLast ==
    /\ stopping <=> context # "loaded"
    /\ context # "loaded" => \A s \in Stores : store[s] \in {"unborn", "gone"}
    /\ context = "freed" => thread.at = "exited"

FreedOnce == \A s \in Stores : frees[s] <= 1 /\ (frees[s] = 1 => store[s] = "gone")

CleanupInv ==
    /\ CleanupTypes /\ ThreadHoldsItsJob /\ UnloadComesLast /\ FreedOnce
    /\ \E q : IsList(q)
-----------------------------------------------------------------------------
LEMMA CleanupBegins == ASSUME CleanupInit PROVE CleanupInv
<1>1. CleanupTypes
  BY DEF CleanupInit, CleanupTypes, Stages, At
<1>3. ThreadHoldsItsJob /\ UnloadComesLast /\ FreedOnce
  BY DEF CleanupInit, ThreadHoldsItsJob, UnloadComesLast, FreedOnce, At
<1>2. IsList(<<>>)
  <2>1. Waiting = {}
    BY DEF CleanupInit, Waiting
  <2> QED BY <2>1, EmptySeq DEF CleanupInit, IsList
<1> QED BY <1>1, <1>2, <1>3 DEF CleanupInv

\* Types are kept by every step.
LEMMA CleanupTypeStep ==
    ASSUME CleanupInv, [CleanupNext]_cleanup_vars
    PROVE  CleanupTypes'
<1> USE DEF CleanupInv, CleanupTypes, Stages
<1>1. CASE UNCHANGED cleanup_vars
  BY <1>1 DEF cleanup_vars, list
<1>2. ASSUME NEW s \in Stores, NewStore(s) PROVE CleanupTypes'
  BY <1>2 DEF NewStore, list
<1>3. ASSUME NEW s \in Stores, DropLastReference(s) PROVE CleanupTypes'
  BY <1>3 DEF DropLastReference, list
<1>4. ASSUME NEW s \in Stores, DestructStore(s) PROVE CleanupTypes'
  BY <1>4 DEF DestructStore, list
<1>5. ASSUME NEW s \in Stores, Enqueue(s) PROVE CleanupTypes'
  <2>1. thread' \in [at : {"checking", "freeing", "waiting", "exited"}, job : Stores \cup {NO_STORE}]
    BY <1>5 DEF Enqueue, Signal, At
  <2>2. next' \in [Stores -> Stores \cup {NO_STORE}]
    BY <1>5 DEF Enqueue
  <2> QED BY <1>5, <2>1, <2>2 DEF Enqueue
<1>6. CASE TakeJob
  BY <1>6 DEF TakeJob
<1>7. CASE Sleep
  BY <1>7 DEF Sleep, list, At
<1>8. CASE LeaveThread
  BY <1>8 DEF LeaveThread, list, At
<1>9. CASE DestroyJob
  <2>1. thread.job \in Stores /\ frees[thread.job] + 1 \in Nat
    BY <1>9 DEF DestroyJob, ThreadHoldsItsJob
  <2>2. frees' \in [Stores -> Nat]
    BY <1>9, <2>1 DEF DestroyJob
  <2> QED BY <1>9, <2>2 DEF DestroyJob, list, At
<1>10. CASE WakeSpuriously
  BY <1>10 DEF WakeSpuriously, list, At
<1>11. CASE Unload
  BY <1>11 DEF Unload, list, Signal, At
<1>12. CASE JoinThread
  BY <1>12 DEF JoinThread, list
<1> QED BY <1>1, <1>2, <1>3, <1>4, <1>5, <1>6, <1>7, <1>8, <1>9, <1>10, <1>11, <1>12
       DEF CleanupNext, Life, Cleaning

\* A job is taken out of the list with its store gone and not yet freed.
LEMMA HeadWaits ==
    ASSUME CleanupInv, head # NO_STORE
    PROVE  head \in Waiting
<1>1. PICK q : IsList(q)
  BY DEF CleanupInv
<1>2. Len(q) \in Nat /\ Len(q) # 0 /\ head = q[1] /\ 1 \in 1 .. Len(q) /\ q[1] \in Stores
  BY <1>1, LenProperties, ElementOfSeq DEF IsList
<1> QED BY <1>1, <1>2 DEF IsList

\* With nothing in the list, no job waits.
LEMMA EmptyListIsEmpty ==
    ASSUME CleanupInv, head = NO_STORE
    PROVE  Waiting = {}
<1>1. PICK q : IsList(q)
  BY DEF CleanupInv
<1>2. Len(q) \in Nat
  BY <1>1, LenProperties DEF IsList
<1>3. Len(q) = 0
  <2> SUFFICES ASSUME Len(q) # 0 PROVE FALSE
    OBVIOUS
  <2>1. head = q[1] /\ q[1] \in Stores
    BY <1>1, <1>2, ElementOfSeq DEF IsList
  <2> QED BY <2>1, NoStoreAssumption
<1>4. Waiting \subseteq Stores
  BY DEF Waiting
<1> QED BY <1>1, <1>3, <1>4 DEF IsList

\* Thread, unloading and frees.
LEMMA CleanupPartsStep ==
    ASSUME CleanupInv, [CleanupNext]_cleanup_vars
    PROVE  (ThreadHoldsItsJob /\ UnloadComesLast /\ FreedOnce)'
<1> USE NoStoreAssumption DEF CleanupInv, CleanupTypes, ThreadHoldsItsJob, UnloadComesLast, FreedOnce
<1> DEFINE Goal == ThreadHoldsItsJob /\ UnloadComesLast /\ FreedOnce
<1>1. CASE UNCHANGED cleanup_vars
  BY <1>1 DEF cleanup_vars, list
<1>2. ASSUME NEW s \in Stores, NewStore(s) PROVE Goal'
  BY <1>2 DEF NewStore, list
<1>3. ASSUME NEW s \in Stores, DropLastReference(s) PROVE Goal'
  BY <1>3 DEF DropLastReference, list
<1>4. ASSUME NEW s \in Stores, DestructStore(s) PROVE Goal'
  <2>1. frees[s] = 0 /\ context = "loaded" /\ (thread.at = "freeing" => thread.job # s)
    BY <1>4 DEF DestructStore
  <2>2. CASE s \in job
    BY <1>4, <2>1, <2>2 DEF DestructStore, list
  <2>3. CASE s \notin job
    BY <1>4, <2>1, <2>3 DEF DestructStore, list
  <2> QED BY <2>2, <2>3
<1>5. ASSUME NEW s \in Stores, Enqueue(s) PROVE Goal'
  <2>1. context = "loaded" /\ ~ stopping /\ thread.at # "exited"
    BY <1>5 DEF Enqueue
  <2> QED BY <1>5, <2>1 DEF Enqueue, Signal, At
<1>6. CASE TakeJob
  <2>1. head \in Stores /\ store[head] = "gone" /\ frees[head] = 0 /\ thread.at = "checking"
    BY <1>6, HeadWaits DEF TakeJob, Waiting
  <2> QED BY <1>6, <2>1 DEF TakeJob
<1>7. CASE Sleep
  BY <1>7 DEF Sleep, list, At
<1>8. CASE LeaveThread
  BY <1>8 DEF LeaveThread, list, At
<1>9. CASE DestroyJob
  BY <1>9 DEF DestroyJob, list, At
<1>10. CASE WakeSpuriously
  BY <1>10 DEF WakeSpuriously, list, At
<1>11. CASE Unload
  BY <1>11 DEF Unload, list, Signal, At
<1>12. CASE JoinThread
  BY <1>12 DEF JoinThread, list
<1> QED BY <1>1, <1>2, <1>3, <1>4, <1>5, <1>6, <1>7, <1>8, <1>9, <1>10, <1>11, <1>12
       DEF CleanupNext, Life, Cleaning
-----------------------------------------------------------------------------
\* While the links and the waiting jobs stay, so does the list.
LEMMA JobsStay ==
    ASSUME \E q : IsList(q), UNCHANGED list, Waiting' = Waiting
    PROVE  (\E q : IsList(q))'
<1>1. PICK q : IsList(q)
  OBVIOUS
<1>2. IsList(q)'
  BY <1>1 DEF IsList, list
<1> QED BY <1>2

\* A job is enqueued behind the tail.
LEMMA JobsGrow ==
    ASSUME CleanupInv, NEW s \in Stores, Enqueue(s)
    PROVE  (\E q : IsList(q))'
<1>1. PICK q : IsList(q)
  BY DEF CleanupInv
<1> DEFINE r == Append(q, s)
<1>2. /\ q \in Seq(Stores) /\ Len(q) \in Nat /\ r \in Seq(Stores)
      /\ Len(r) = Len(q) + 1 /\ r[Len(q) + 1] = s
      /\ \A i \in 1 .. Len(q) : r[i] = q[i] /\ q[i] \in Stores
  BY <1>1, AppendProperties, LenProperties, ElementOfSeq DEF IsList
<1>3. s \notin Waiting /\ frees[s] = 0 /\ s # thread.job
  BY NoStoreAssumption
     DEF Enqueue, Waiting, CleanupInv, CleanupTypes, FreedOnce, ThreadHoldsItsJob
<1>4. \A i \in 1 .. Len(q) : q[i] # s
  BY <1>1, <1>2, <1>3 DEF IsList
<1>5. \A t \in Stores : t \in Waiting' <=> t = s \/ t \in Waiting
  <2>1. store' = [store EXCEPT ![s] = "gone"] /\ frees' = frees
    BY DEF Enqueue
  <2>2. thread'.job = thread.job
    BY DEF Enqueue, Signal, At, CleanupInv, ThreadHoldsItsJob
  <2> QED BY <1>3, <2>1, <2>2 DEF Waiting, CleanupInv, CleanupTypes
<1>6. tail' = s /\ next \in [Stores -> Stores \cup {NO_STORE}]
  BY DEF Enqueue, CleanupInv, CleanupTypes
<1> HIDE DEF r
<1>7. IsList(r)'
  <2>1. \A i, j \in 1 .. Len(r) : r[i] = r[j] => i = j
    BY <1>1, <1>2, <1>4 DEF IsList
  <2>2. \A t \in Stores : t \in Waiting' <=> \E i \in 1 .. Len(r) : r[i] = t
    <3>1. \A t \in Stores : t \in Waiting <=> \E i \in 1 .. Len(q) : q[i] = t
      BY <1>1 DEF IsList
    <3>2. SUFFICES ASSUME NEW t \in Stores
                   PROVE  t = s \/ (\E i \in 1 .. Len(q) : q[i] = t) <=> \E i \in 1 .. Len(r) : r[i] = t
      BY <1>5, <3>1
    <3>3. ASSUME t = s PROVE \E i \in 1 .. Len(r) : r[i] = t
      BY <1>2, <3>3
    <3>4. ASSUME NEW i \in 1 .. Len(q), q[i] = t PROVE \E k \in 1 .. Len(r) : r[k] = t
      BY <1>2, <3>4
    <3>5. ASSUME NEW i \in 1 .. Len(r), r[i] = t PROVE t = s \/ \E k \in 1 .. Len(q) : q[k] = t
      <4>1. CASE i = Len(q) + 1
        BY <1>2, <3>5, <4>1
      <4>2. CASE i # Len(q) + 1
        BY <1>2, <3>5, <4>2
      <4> QED BY <4>1, <4>2
    <3> QED BY <3>3, <3>4, <3>5
  <2>3. CASE Len(q) = 0
    <3>1. tail = NO_STORE
      BY <1>1, <2>3 DEF IsList
    <3>2. head' = s /\ next' = [next EXCEPT ![s] = NO_STORE]
      BY <3>1 DEF Enqueue
    <3>3. Len(r) = 1 /\ r[1] = s /\ next'[s] = NO_STORE
      BY <1>2, <1>6, <2>3, <3>2
    <3> QED BY <1>2, <1>6, <2>1, <2>2, <3>2, <3>3 DEF IsList
  <2>4. CASE Len(q) # 0
    <3>1. tail = q[Len(q)] /\ tail \in Stores /\ tail # s /\ head = q[1] /\ Len(q) \in 1 .. Len(q)
      BY <1>1, <1>2, <1>4, <2>4 DEF IsList
    <3>2. head' = head /\ next' = [next EXCEPT ![s] = NO_STORE, ![tail] = s]
      BY <3>1, NoStoreAssumption DEF Enqueue
    <3>3. next'[s] = NO_STORE /\ next'[tail] = s
          /\ \A t \in Stores \ {s, tail} : next'[t] = next[t]
      BY <1>6, <3>1, <3>2
    <3>4. head' = r[1]
      BY <1>2, <2>4, <3>1, <3>2
    <3>5. ASSUME NEW i \in 1 .. Len(r) - 1 PROVE next'[r[i]] = r[i + 1]
      <4>1. CASE i = Len(q)
        BY <1>2, <3>1, <3>3, <4>1
      <4>2. CASE i # Len(q)
        <5>1. i \in 1 .. Len(q) - 1 /\ i \in 1 .. Len(q) /\ i + 1 \in 1 .. Len(q)
          BY <1>2, <4>2
        <5>2. q[i] # tail /\ q[i] # s /\ q[i] \in Stores /\ next[q[i]] = q[i + 1]
          BY <1>1, <1>2, <1>4, <3>1, <4>2, <5>1 DEF IsList
        <5> QED BY <1>2, <3>3, <5>1, <5>2
      <4> QED BY <4>1, <4>2
    <3> QED BY SMTT(30), ZenonT(30), <1>2, <1>6, <2>1, <2>2, <3>3, <3>4, <3>5 DEF IsList
  <2> QED BY <2>3, <2>4
<1> QED BY <1>7

\* The first job is taken.
LEMMA JobsShrink ==
    ASSUME CleanupInv, TakeJob
    PROVE  (\E q : IsList(q))'
<1>1. PICK q : IsList(q)
  BY DEF CleanupInv
<1>2. q \in Seq(Stores) /\ Len(q) \in Nat /\ Len(q) # 0 /\ q # <<>> /\ head = q[1]
  BY <1>1, LenProperties, EmptySeq DEF IsList, TakeJob
<1> DEFINE r == Tail(q)
<1>3. /\ r \in Seq(Stores) /\ Len(r) = Len(q) - 1
      /\ \A i \in 1 .. Len(r) : r[i] = q[i + 1]
      /\ \A i \in 1 .. Len(q) : q[i] \in Stores
  BY <1>2, HeadTailProperties, ElementOfSeq
<1> HIDE DEF r
<1>4. head' = next[head] /\ tail' = (IF next[head] = NO_STORE THEN NO_STORE ELSE tail)
      /\ next' = next /\ thread' = [at |-> "freeing", job |-> head] /\ UNCHANGED <<store, frees>>
      /\ thread.at = "checking"
  BY DEF TakeJob
<1>5. \A t \in Stores : t \in Waiting' <=> t \in Waiting /\ t # head
  BY <1>4, NoStoreAssumption DEF Waiting, CleanupInv, ThreadHoldsItsJob
<1>6. ASSUME NEW t \in Stores
      PROVE  (t \in Waiting /\ t # head) <=> \E i \in 1 .. Len(r) : r[i] = t
  <2>1. t \in Waiting <=> \E i \in 1 .. Len(q) : q[i] = t
    BY <1>1 DEF IsList
  <2>2. ASSUME NEW i \in 1 .. Len(q), q[i] = t, t # head PROVE \E k \in 1 .. Len(r) : r[k] = t
    <3>1. i # 1 /\ i - 1 \in 1 .. Len(r) /\ (i - 1) + 1 = i
      BY <1>2, <1>3, <2>2
    <3> QED BY <1>3, <2>2, <3>1
  <2>3. ASSUME NEW i \in 1 .. Len(r), r[i] = t PROVE (\E k \in 1 .. Len(q) : q[k] = t) /\ t # head
    <3>1. i + 1 \in 1 .. Len(q) /\ 1 \in 1 .. Len(q) /\ i + 1 # 1 /\ q[i + 1] = t
      BY <1>2, <1>3, <2>3
    <3>2. t # q[1]
      BY <1>1, <3>1 DEF IsList
    <3> QED BY <1>2, <3>1, <3>2
  <2> QED BY <2>1, <2>2, <2>3
<1>7. \A i, j \in 1 .. Len(r) : r[i] = r[j] => i = j
  <2> SUFFICES ASSUME NEW i \in 1 .. Len(r), NEW j \in 1 .. Len(r), r[i] = r[j] PROVE i = j
    OBVIOUS
  <2>1. i + 1 \in 1 .. Len(q) /\ j + 1 \in 1 .. Len(q) /\ q[i + 1] = q[j + 1]
    BY <1>2, <1>3
  <2>2. i + 1 = j + 1
    BY <1>1, <2>1 DEF IsList
  <2> QED BY <2>2
<1>8. IsList(r)'
  <2>1. CASE Len(q) = 1
    <3>1. next[head] = NO_STORE /\ Len(r) = 0
      BY <1>1, <1>2, <1>3, <2>1 DEF IsList
    <3>2. head' = NO_STORE /\ tail' = NO_STORE
      BY <1>4, <3>1
    <3>3. \A t \in Stores : t \in Waiting' <=> \E i \in 1 .. Len(r) : r[i] = t
      BY <1>5, <1>6
    <3>4. \A i \in 1 .. Len(r) - 1 : FALSE
      BY <3>1
    <3> QED BY <1>3, <1>7, <3>1, <3>2, <3>3, <3>4 DEF IsList
  <2>2. CASE Len(q) # 1
    <3>1. 1 \in 1 .. Len(q) - 1 /\ 1 \in 1 .. Len(r) /\ 2 \in 1 .. Len(q)
      BY <1>2, <1>3, <2>2
    <3>2. next[head] = q[2] /\ q[2] \in Stores /\ r[1] = q[2]
      BY <1>1, <1>2, <1>3, <3>1 DEF IsList
    <3>3. r[Len(r)] = q[Len(q)] /\ tail = q[Len(q)] /\ next[q[Len(q)]] = NO_STORE /\ Len(r) # 0
      BY <1>1, <1>2, <1>3, <3>1 DEF IsList
    <3>4. ASSUME NEW i \in 1 .. Len(r) - 1 PROVE next[r[i]] = r[i + 1]
      <4>1. i + 1 \in 1 .. Len(q) - 1 /\ i \in 1 .. Len(r) /\ i + 1 \in 1 .. Len(r)
        BY <1>2, <1>3
      <4>2. next[q[i + 1]] = q[i + 1 + 1]
        BY <1>1, <4>1 DEF IsList
      <4> QED BY <1>3, <4>1, <4>2
    <3>5. head' = r[1] /\ tail' = r[Len(r)]
      BY <1>4, <3>2, <3>3, NoStoreAssumption
    <3>6. \A t \in Stores : t \in Waiting' <=> \E i \in 1 .. Len(r) : r[i] = t
      BY <1>5, <1>6
    <3> QED BY <1>3, <1>4, <1>7, <3>3, <3>4, <3>5, <3>6 DEF IsList
  <2> QED BY <2>1, <2>2
<1> QED BY <1>8

LEMMA JobsStep ==
    ASSUME CleanupInv, [CleanupNext]_cleanup_vars
    PROVE  (\E q : IsList(q))'
<1> USE NoStoreAssumption DEF CleanupInv, CleanupTypes
<1>1. CASE UNCHANGED cleanup_vars
  <2>1. Waiting' = Waiting /\ UNCHANGED list
    BY <1>1 DEF cleanup_vars, Waiting
  <2> QED BY <2>1, JobsStay
<1>2. ASSUME NEW s \in Stores, NewStore(s) PROVE (\E q : IsList(q))'
  <2>1. Waiting' = Waiting /\ UNCHANGED list
    <3>1. PICK new \in {"live", "released"} : store' = [store EXCEPT ![s] = new]
      BY <1>2 DEF NewStore
    <3>2. store[s] = "unborn" /\ UNCHANGED <<list, thread, frees>>
      BY <1>2 DEF NewStore
    <3> QED BY <3>1, <3>2 DEF Waiting
  <2> QED BY <2>1, JobsStay
<1>3. ASSUME NEW s \in Stores, DropLastReference(s) PROVE (\E q : IsList(q))'
  <2>1. Waiting' = Waiting /\ UNCHANGED list
    BY <1>3 DEF DropLastReference, Waiting
  <2> QED BY <2>1, JobsStay
<1>4. ASSUME NEW s \in Stores, DestructStore(s) PROVE (\E q : IsList(q))'
  <2>1. frees[s] = 0 /\ store[s] = "released"
    BY <1>4 DEF DestructStore, FreedOnce
  <2>2. Waiting' = Waiting /\ UNCHANGED list
    <3>1. CASE s \in job
      BY <1>4, <2>1, <3>1 DEF DestructStore, Waiting
    <3>2. CASE s \notin job
      BY <1>4, <2>1, <3>2 DEF DestructStore, Waiting
    <3> QED BY <3>1, <3>2
  <2> QED BY <2>2, JobsStay
<1>5. ASSUME NEW s \in Stores, Enqueue(s) PROVE (\E q : IsList(q))'
  BY <1>5, JobsGrow
<1>6. CASE TakeJob
  BY <1>6, JobsShrink
<1>7. CASE Sleep
  <2>1. Waiting' = Waiting /\ UNCHANGED list
    BY <1>7 DEF Sleep, Waiting, At, ThreadHoldsItsJob
  <2> QED BY <2>1, JobsStay
<1>8. CASE LeaveThread
  <2>1. Waiting' = Waiting /\ UNCHANGED list
    BY <1>8 DEF LeaveThread, Waiting, At, ThreadHoldsItsJob
  <2> QED BY <2>1, JobsStay
<1>9. CASE DestroyJob
  <2>1. thread.job \in Stores /\ frees' = [frees EXCEPT ![thread.job] = 1] /\ frees[thread.job] = 0
    <3>1. thread.job \in Stores /\ frees[thread.job] = 0
      BY <1>9 DEF DestroyJob, ThreadHoldsItsJob
    <3>2. frees' = [frees EXCEPT ![thread.job] = frees[thread.job] + 1]
      BY <1>9 DEF DestroyJob
    <3> QED BY <3>1, <3>2
  <2>2. Waiting' = Waiting /\ UNCHANGED list
    BY <1>9, <2>1 DEF DestroyJob, Waiting, At
  <2> QED BY <2>2, JobsStay
<1>10. CASE WakeSpuriously
  <2>1. Waiting' = Waiting /\ UNCHANGED list
    BY <1>10 DEF WakeSpuriously, Waiting, At, ThreadHoldsItsJob
  <2> QED BY <2>1, JobsStay
<1>11. CASE Unload
  <2>1. Waiting' = Waiting /\ UNCHANGED list
    BY <1>11 DEF Unload, Waiting, Signal, At, ThreadHoldsItsJob
  <2> QED BY <2>1, JobsStay
<1>12. CASE JoinThread
  <2>1. Waiting' = Waiting /\ UNCHANGED list
    BY <1>12 DEF JoinThread, Waiting
  <2> QED BY <2>1, JobsStay
<1> QED BY <1>1, <1>2, <1>3, <1>4, <1>5, <1>6, <1>7, <1>8, <1>9, <1>10, <1>11, <1>12
       DEF CleanupNext, Life, Cleaning

LEMMA CleanupStep ==
    ASSUME CleanupInv, [CleanupNext]_cleanup_vars
    PROVE  CleanupInv'
BY CleanupTypeStep, CleanupPartsStep, JobsStep DEF CleanupInv
-----------------------------------------------------------------------------
\* What the recursion of Chain asks of a function.
IsChain(f) ==
    f = [n \in 0 .. Cardinality(Stores) |->
           IF n = 0 THEN head ELSE IF f[n - 1] = NO_STORE THEN NO_STORE ELSE next[f[n - 1]]]

\* A list without repetition is no longer than there are stores.
LEMMA ListFits ==
    ASSUME NEW q, IsList(q)
    PROVE  Len(q) \in Nat /\ Cardinality(Stores) \in Nat /\ Len(q) <= Cardinality(Stores)
<1>1. q \in Seq(Stores) /\ Len(q) \in Nat
  BY LenProperties DEF IsList
<1>2. Cardinality(Stores) \in Nat
  BY StoresAssumption, FS_CardinalityType
<1>3. IsFiniteSet(1 .. Len(q)) /\ Cardinality(1 .. Len(q)) = Len(q)
  BY SMTT(30), ZenonT(30), <1>1, FS_Interval
<1>4. Cardinality(1 .. Len(q)) <= Cardinality(Stores)
  <2> DEFINE f == [i \in 1 .. Len(q) |-> q[i]]
  <2>1. f \in Injection(1 .. Len(q), Stores)
    BY <1>1, ElementOfSeq DEF IsList, Injection, IsInjective
  <2> QED BY <1>3, <2>1, StoresAssumption, FS_Injection
<1> QED BY <1>1, <1>2, <1>3, <1>4

\* The chain runs along the list and stays at its end.
LEMMA ChainRunsAlong ==
    ASSUME NEW q, IsList(q)
    PROVE  \A n \in 0 .. Cardinality(Stores) : Chain[n] = IF n < Len(q) THEN q[n + 1] ELSE NO_STORE
<1> DEFINE c == Cardinality(Stores)
           g == [n \in 0 .. c |-> IF n < Len(q) THEN q[n + 1] ELSE NO_STORE]
<1>1. Len(q) \in Nat /\ c \in Nat /\ Len(q) <= c
  BY ListFits
<1>2. \A i \in 1 .. Len(q) : q[i] \in Stores /\ q[i] # NO_STORE
  BY ElementOfSeq, NoStoreAssumption DEF IsList
<1> DEFINE Follows(n, m) == IF n = 0 THEN head ELSE IF m = NO_STORE THEN NO_STORE ELSE next[m]
<1>3. ASSUME NEW n \in 0 .. c PROVE g[n] = Follows(n, g[n - 1])
  <2>1. CASE n = 0
    BY <1>1, <2>1 DEF IsList
  <2>2. CASE n # 0
    <3>1. n - 1 \in 0 .. c /\ (n - 1) + 1 = n
      BY <1>1, <2>2
    <3>2. CASE n < Len(q)
      <4>1. n \in 1 .. Len(q) - 1 /\ n \in 1 .. Len(q) /\ g[n - 1] = q[n] /\ g[n] = q[n + 1]
        BY <1>1, <2>2, <3>1, <3>2
      <4> QED BY <1>2, <2>2, <4>1 DEF IsList
    <3>3. CASE n = Len(q)
      <4>1. n \in 1 .. Len(q) /\ g[n - 1] = q[n] /\ g[n] = NO_STORE
        BY <1>1, <2>2, <3>1, <3>3
      <4> QED BY <1>2, <2>2, <3>3, <4>1 DEF IsList
    <3>4. CASE n > Len(q)
      <4>1. g[n - 1] = NO_STORE /\ g[n] = NO_STORE
        BY <1>1, <2>2, <3>1, <3>4
      <4> QED BY <2>2, <4>1
    <3> QED BY <1>1, <3>2, <3>3, <3>4
  <2> QED BY <2>1, <2>2
<1>4. IsChain(g)
  <2>1. g = [n \in 0 .. c |-> g[n]]
    OBVIOUS
  <2> HIDE DEF g
  <2> QED BY <1>3, <2>1 DEF IsChain
<1>5. IsChain(Chain)
  <2>1. Chain = CHOOSE f : IsChain(f)
    BY DEF Chain, IsChain
  <2> HIDE DEF g
  <2> QED BY <1>4, <2>1
<1> DEFINE Same == {n \in Nat : n <= c => Chain[n] = g[n]}
<1>6. 0 \in Same
  <2>1. 0 \in 0 .. c
    BY <1>1
  <2> HIDE DEF g
  <2>2. Chain[0] = head /\ g[0] = head
    BY <1>4, <1>5, <2>1 DEF IsChain
  <2> QED BY <2>2
<1>7. \A n \in Nat : n \in Same => n + 1 \in Same
  <2> HIDE DEF g, c
  <2> SUFFICES ASSUME NEW n \in Nat, n \in Same, n + 1 <= c PROVE Chain[n + 1] = g[n + 1]
    OBVIOUS
  <2> USE DEF c
  <2>1. n \in 0 .. c /\ n + 1 \in 0 .. c /\ (n + 1) - 1 = n /\ n + 1 # 0 /\ Chain[n] = g[n]
    BY <1>1
  <2> QED BY <1>4, <1>5, <2>1 DEF IsChain
<1>8. Nat \subseteq Same
  <2> HIDE DEF Same
  <2> QED BY <1>6, <1>7, Induction
<1>9. ASSUME NEW n \in 0 .. c PROVE Chain[n] = g[n]
  <2> HIDE DEF g
  <2> QED BY <1>1, <1>8
<1> QED BY <1>9

\* The invariant says of the list what the property says of the chain.
LEMMA ListIsTheChain == ASSUME CleanupInv PROVE ListHoldsTheWaiting
<1>1. PICK q : IsList(q)
  BY DEF CleanupInv
<1>2. Len(q) \in Nat /\ Cardinality(Stores) \in Nat /\ Len(q) <= Cardinality(Stores)
  BY <1>1, ListFits
<1>3. \A i \in 1 .. Len(q) : q[i] \in Stores /\ q[i] # NO_STORE
  BY <1>1, ElementOfSeq, NoStoreAssumption DEF IsList
<1> DEFINE linked == {Chain[n] : n \in 0 .. Cardinality(Stores)} \ {NO_STORE}
<1>4. \A n \in 0 .. Cardinality(Stores) : Chain[n] = IF n < Len(q) THEN q[n + 1] ELSE NO_STORE
  BY <1>1, ChainRunsAlong
<1>5. ASSUME NEW i \in 1 .. Len(q) PROVE q[i] \in linked
  <2>1. i - 1 \in 0 .. Cardinality(Stores) /\ i - 1 < Len(q) /\ (i - 1) + 1 = i
    BY <1>2
  <2>2. Chain[i - 1] = q[i]
    BY <1>4, <2>1
  <2> QED BY <1>3, <2>1, <2>2
<1>6. ASSUME NEW s \in linked PROVE \E i \in 1 .. Len(q) : q[i] = s
  <2>1. PICK n \in 0 .. Cardinality(Stores) : s = Chain[n] /\ s # NO_STORE
    BY <1>6
  <2>2. n < Len(q) /\ s = q[n + 1]
    BY <1>4, <2>1
  <2> QED BY <1>2, <2>2
<1>7. linked = Waiting
  <2> HIDE DEF linked
  <2>1. Waiting \subseteq Stores
    BY DEF Waiting
  <2>2. \A s \in Stores : s \in Waiting <=> \E i \in 1 .. Len(q) : q[i] = s
    BY <1>1 DEF IsList
  <2> QED BY <1>3, <1>5, <1>6, <2>1, <2>2
<1>8. head = NO_STORE <=> tail = NO_STORE
  BY <1>1, <1>2, <1>3 DEF IsList
<1>9. tail # NO_STORE => tail \in linked /\ next[tail] = NO_STORE
  <2> HIDE DEF linked
  <2> QED BY <1>1, <1>2, <1>5 DEF IsList
<1> QED BY <1>7, <1>8, <1>9 DEF ListHoldsTheWaiting

\* However many stores are released on whatever threads, the memory of each is
\* given back once, after its last reference, over a list that holds exactly
\* the jobs that wait, and an unloaded library leaves none behind.
THEOREM MemoryIsFreedOnce == CleanupSpec => []StoresAreFreedOnce
<1>1. CleanupInit => CleanupInv
  BY CleanupBegins
<1>2. CleanupInv /\ [CleanupNext]_cleanup_vars => CleanupInv'
  BY CleanupStep
<1>3. CleanupInv => StoresAreFreedOnce
  <2> SUFFICES ASSUME CleanupInv PROVE StoresAreFreedOnce
    OBVIOUS
  <2>1. ListHoldsTheWaiting
    BY ListIsTheChain
  <2>2. ASSUME context = "freed"
        PROVE  thread.at = "exited" /\ \A s \in Stores : store[s] # "unborn" => frees[s] = 1
    <3>1. thread.at = "exited" /\ thread.job = NO_STORE /\ head = NO_STORE
      BY <2>2 DEF CleanupInv, ThreadHoldsItsJob, UnloadComesLast
    <3>2. Waiting = {}
      BY <3>1, EmptyListIsEmpty
    <3> QED BY <2>2, <3>1, <3>2, NoStoreAssumption
            DEF CleanupInv, CleanupTypes, UnloadComesLast, FreedOnce, Waiting
  <2> QED BY <2>1, <2>2 DEF CleanupInv, FreedOnce, StoresAreFreedOnce
<1> QED BY <1>1, <1>2, <1>3, PTL DEF CleanupSpec
-----------------------------------------------------------------------------
(* RecordDecoder *)

\* The places of some of the first positions, in their order, are as many and
\* each is taken.
LEMMA PlacesOfPart ==
    ASSUME NEW n \in Nat, NEW P \in SUBSET (1 .. n)
    PROVE  /\ Cardinality(P) \in Nat
           /\ \A i, j \in P : Cardinality({k \in P : k <= i}) = Cardinality({k \in P : k <= j}) => i = j
           /\ \A k \in 1 .. Cardinality(P) : \E i \in P : Cardinality({j \in P : j <= i}) = k
           /\ \A i \in P : Cardinality({j \in P : j <= i}) \in 1 .. Cardinality(P)
<1> DEFINE upto(i) == {j \in P : j <= i}
           c == Cardinality(P)
<1>1. IsFiniteSet(P) /\ c \in Nat
  <2>1. IsFiniteSet(1 .. n)
    BY FS_Interval
  <2> QED BY <2>1, FS_Subset, FS_CardinalityType
<1>2. \A i \in P : i \in Int
  OBVIOUS
<1>3. ASSUME NEW i \in P
      PROVE  IsFiniteSet(upto(i)) /\ Cardinality(upto(i)) \in 1 .. c
  <2>1. upto(i) \in SUBSET P /\ i \in upto(i)
    BY <1>2
  <2> HIDE DEF upto
  <2>2. IsFiniteSet(upto(i)) /\ Cardinality(upto(i)) <= c /\ Cardinality(upto(i)) \in Nat
    BY <1>1, <2>1, FS_Subset, FS_CardinalityType
  <2>3. Cardinality(upto(i)) # 0
    BY <2>1, <2>2, FS_EmptySet
  <2> QED BY <1>1, <2>2, <2>3
<1>4. ASSUME NEW i \in P, NEW j \in P, i < j
      PROVE  Cardinality(upto(i)) < Cardinality(upto(j))
  <2>0. (\A x \in P : x <= i => x <= j /\ x # j) /\ j <= j
    BY <1>2, <1>4
  <2>1. upto(i) \in SUBSET (upto(j) \ {j}) /\ j \in upto(j)
    BY <2>0
  <2> HIDE DEF upto
  <2>2. IsFiniteSet(upto(j) \ {j}) /\ Cardinality(upto(j) \ {j}) = Cardinality(upto(j)) - 1
    BY <1>3, <2>1, FS_RemoveElement
  <2>3. Cardinality(upto(i)) <= Cardinality(upto(j)) - 1
    BY <2>1, <2>2, FS_Subset
  <2>4. Cardinality(upto(i)) \in Int /\ Cardinality(upto(j)) \in Int
    BY <1>1, <1>3
  <2> QED BY <2>3, <2>4
<1> DEFINE f == [i \in P |-> Cardinality(upto(i))]
           D == 1 .. c
<1>5. f \in [P -> D] /\ \A i, j \in P : f[i] = f[j] => i = j
  <2>1. f \in [P -> D]
    BY <1>3
  <2>2. ASSUME NEW i \in P, NEW j \in P, f[i] = f[j] PROVE i = j
    <3>1. f[i] = Cardinality(upto(i)) /\ f[j] = Cardinality(upto(j)) /\ f[i] \in Int /\ f[j] \in Int
      BY <1>1, <2>1
    <3>2. ~ (i < j) /\ ~ (j < i)
      <4>1. i < j => Cardinality(upto(i)) < Cardinality(upto(j))
        BY <1>4
      <4>2. j < i => Cardinality(upto(j)) < Cardinality(upto(i))
        BY <1>4
      <4> DEFINE ci == Cardinality(upto(i))
                 cj == Cardinality(upto(j))
      <4>3. ci \in Int /\ cj \in Int /\ ci = cj
        BY <2>2, <3>1
      <4>4. (i < j => ci < cj) /\ (j < i => cj < ci)
        BY <4>1, <4>2
      <4> HIDE DEF ci, cj
      <4> QED BY <4>3, <4>4
    <3> QED BY <1>2, <3>2
  <2> QED BY <2>1, <2>2
<1>6. IsFiniteSet(D) /\ Cardinality(D) = c
  BY <1>1, FS_Interval
<1> HIDE DEF D, f, c
<1>7. f \in Injection(P, D)
  BY <1>5 DEF Injection, IsInjective
<1>8. f \in Surjection(P, D)
  BY <1>6, <1>7, FS_Injection DEF c
<1>9. \A k \in D : \E i \in P : Cardinality(upto(i)) = k
  BY <1>8 DEF Surjection, f
<1>10. \A i, j \in P : Cardinality(upto(i)) = Cardinality(upto(j)) => i = j
  BY <1>5 DEF f
<1> QED BY <1>1, <1>3, <1>9, <1>10 DEF c, D

AreCells(cells, table, group, attributes) ==
    /\ cells \in Seq({group} \X Selectable)
    /\ \A a : a \in Range(cells) <=> a \in attributes /\ \E f \in Range(table) : a = <<group, f>>

\* The cells of a group are its attributes that are in the table.
LEMMA CellsHave ==
    ASSUME NEW order, NEW group, NEW attributes, order[group] \in Seq(Selectable)
    PROVE  AreCells(Cells(order, group, attributes), order[group], group, attributes)
<1> DEFINE table == order[group]
           P == {i \in DOMAIN table : <<group, table[i]>> \in attributes}
           place(i) == Cardinality({j \in P : j <= i})
           nth(k) == CHOOSE i \in P : place(i) = k
           s == Cells(order, group, attributes)
           F == Selectable
<1> HIDE DEF F
<1>0. table \in Seq(F)
  BY DEF F
<1>1. DOMAIN table = 1 .. Len(table) /\ Len(table) \in Nat /\ \A i \in DOMAIN table : table[i] \in F
  BY <1>0, LenProperties, ElementOfSeq
<1>2. /\ Cardinality(P) \in Nat
      /\ \A i, j \in P : place(i) = place(j) => i = j
      /\ \A k \in 1 .. Cardinality(P) : \E i \in P : place(i) = k
      /\ \A i \in P : place(i) \in 1 .. Cardinality(P)
  <2>1. P \in SUBSET (1 .. Len(table))
    BY <1>1
  <2> HIDE DEF P, table
  <2> QED BY <1>1, <2>1, PlacesOfPart
<1>3. s = [k \in 1 .. Cardinality(P) |-> <<group, table[nth(k)]>>]
  BY DEF Cells
<1> HIDE DEF s, place
<1>4. \A k \in 1 .. Cardinality(P) : nth(k) \in P /\ place(nth(k)) = k
  BY <1>2
<1>5. P \subseteq DOMAIN table /\ \A i \in P : <<group, table[i]>> \in attributes
  OBVIOUS
<1>6. \A i \in DOMAIN table : <<group, table[i]>> \in attributes => i \in P
  OBVIOUS
<1> DEFINE m == Cardinality(P)
<1> HIDE DEF nth, P, table, m
<1>7. s \in Seq({group} \X F) /\ DOMAIN s = 1 .. m
  <2>1. \A k \in 1 .. m : <<group, table[nth(k)]>> \in {group} \X F
    BY <1>1, <1>4, <1>5 DEF m
  <2>2. s \in [1 .. m -> {group} \X F]
    BY <1>3, <2>1 DEF m
  <2> QED BY <1>2, <2>2, SeqDef DEF m
<1>8. ASSUME NEW a, a \in Range(s)
      PROVE  a \in attributes /\ \E f \in Range(table) : a = <<group, f>>
  <2>1. PICK k \in 1 .. m : a = s[k]
    BY <1>7, <1>8 DEF Range
  <2>2. a = <<group, table[nth(k)]>> /\ nth(k) \in P /\ nth(k) \in DOMAIN table
    BY <1>3, <1>4, <1>5, <2>1 DEF m
  <2> QED BY <1>5, <2>2 DEF Range
<1>9. ASSUME NEW a, a \in attributes, NEW f \in Range(table), a = <<group, f>>
      PROVE  a \in Range(s)
  <2>1. PICK i \in DOMAIN table : f = table[i]
    BY DEF Range
  <2>2. i \in P
    BY <1>6, <1>9, <2>1
  <2>3. PICK j \in P : j = nth(place(i)) /\ place(j) = place(i) /\ place(i) \in 1 .. m
    BY <1>2, <1>4, <2>2 DEF m
  <2>4. j = i
    BY <1>2, <2>2, <2>3
  <2> QED BY <1>3, <1>7, <1>9, <2>1, <2>3, <2>4 DEF Range, m
<1> QED BY <1>7, <1>8, <1>9 DEF AreCells, F, s, table

\* Sequences that follow one another have what each of them has.
LEMMA ThreeInARow ==
    ASSUME NEW X, NEW a \in Seq(X), NEW b \in Seq(X), NEW c \in Seq(X)
    PROVE  LET s == a \o b \o c
           IN /\ s \in Seq(X) /\ Len(a) <= Len(s)
              /\ \A i \in 1 .. Len(a) : s[i] = a[i]
              /\ Range(s) = Range(a) \cup Range(b) \cup Range(c)
<1> DEFINE ab == a \o b
           s == ab \o c
<1>1. /\ Len(a) \in Nat /\ Len(b) \in Nat /\ Len(c) \in Nat
      /\ DOMAIN a = 1 .. Len(a) /\ DOMAIN b = 1 .. Len(b) /\ DOMAIN c = 1 .. Len(c)
  BY LenProperties
<1>2. /\ ab \in Seq(X) /\ Len(ab) = Len(a) + Len(b)
      /\ \A i \in 1 .. Len(a) + Len(b) : ab[i] = IF i <= Len(a) THEN a[i] ELSE b[i - Len(a)]
  BY ConcatProperties
<1> HIDE DEF ab
<1>3. /\ s \in Seq(X) /\ Len(s) = Len(ab) + Len(c)
      /\ \A i \in 1 .. Len(ab) + Len(c) : s[i] = IF i <= Len(ab) THEN ab[i] ELSE c[i - Len(ab)]
  <2>1. ab \in Seq(X)
    BY <1>2
  <2> QED BY <2>1, ConcatProperties
<1> HIDE DEF s
<1>4. DOMAIN ab = 1 .. Len(a) + Len(b) /\ DOMAIN s = 1 .. Len(ab) + Len(c)
  BY <1>2, <1>3, LenProperties
<1>5. Range(ab) = Range(a) \cup Range(b)
  <2>1. \A i \in DOMAIN a : i \in DOMAIN ab /\ ab[i] = a[i]
    BY <1>1, <1>2, <1>4
  <2>2. \A i \in DOMAIN b : i + Len(a) \in DOMAIN ab /\ ab[i + Len(a)] = b[i]
    BY <1>1, <1>2, <1>4
  <2>3. \A i \in DOMAIN ab : (i \in DOMAIN a /\ ab[i] = a[i]) \/ (i - Len(a) \in DOMAIN b /\ ab[i] = b[i - Len(a)])
    BY <1>1, <1>2, <1>4
  <2> QED BY <2>1, <2>2, <2>3 DEF Range
<1>6. Range(s) = Range(ab) \cup Range(c)
  <2>1. \A i \in DOMAIN ab : i \in DOMAIN s /\ s[i] = ab[i]
    BY <1>1, <1>2, <1>3, <1>4
  <2>2. \A i \in DOMAIN c : i + Len(ab) \in DOMAIN s /\ s[i + Len(ab)] = c[i]
    <3> SUFFICES ASSUME NEW i \in DOMAIN c PROVE i + Len(ab) \in DOMAIN s /\ s[i + Len(ab)] = c[i]
      OBVIOUS
    <3>1. Len(ab) \in Nat /\ i \in 1 .. Len(c) /\ Len(c) \in Nat
      BY <1>1, <1>2
    <3>2. /\ i + Len(ab) \in 1 .. Len(ab) + Len(c) /\ ~ (i + Len(ab) <= Len(ab))
          /\ i + Len(ab) - Len(ab) = i
      BY <3>1
    <3> QED BY <1>3, <1>4, <3>2
  <2>3. \A i \in DOMAIN s : (i \in DOMAIN ab /\ s[i] = ab[i]) \/ (i - Len(ab) \in DOMAIN c /\ s[i] = c[i - Len(ab)])
    BY <1>1, <1>2, <1>3, <1>4
  <2> QED BY <2>1, <2>2, <2>3 DEF Range
<1>7. \A i \in 1 .. Len(a) : s[i] = a[i]
  BY <1>1, <1>2, <1>3
<1>8. Len(a) <= Len(s)
  BY <1>1, <1>2, <1>3
<1> QED BY <1>3, <1>5, <1>6, <1>7, <1>8 DEF s, ab

\* The fields that can be asked for in each group.
FieldsOf == [common |-> CommonFields, directory |-> BothFields \cup DirectoryFields,
             file |-> BothFields \cup FileFields, fork |-> ForkFields]
Askable == {a \in Asking : a[2] \in FieldsOf[a[1]]}

\* The kernel's tables have all of them.
LEMMA TablesAreComplete ==
    /\ KernelOrder.common \in Seq(Selectable) /\ Range(KernelOrder.common) = CommonFields
    /\ KernelOrder.directory \in Seq(Selectable) /\ Range(KernelOrder.directory) = BothFields \cup DirectoryFields
    /\ KernelOrder.file \in Seq(Selectable) /\ Range(KernelOrder.file) = BothFields \cup FileFields
    /\ KernelOrder.fork \in Seq(Selectable) /\ Range(KernelOrder.fork) = ForkFields
<1>1. KernelOrder.common = EntryCommon /\ KernelOrder.directory = EntryDirectory
      /\ KernelOrder.file = EntryFile /\ KernelOrder.fork = EntryFork
  BY DEF KernelOrder, EntryCommon, EntryDirectory, EntryFile, EntryFork
<1>2. EntryCommon \in Seq(CommonFields) /\ Range(EntryCommon) = CommonFields
  <2>1. EntryCommon \in Seq(CommonFields)
    BY DEF EntryCommon, CommonFields
  <2>2. \A f \in CommonFields : \E i \in DOMAIN EntryCommon : EntryCommon[i] = f
    BY DEF EntryCommon, CommonFields
  <2> QED BY <2>1, <2>2, LenProperties, ElementOfSeq DEF Range
<1>3. EntryDirectory \in Seq(BothFields \cup DirectoryFields) /\ Range(EntryDirectory) = BothFields \cup DirectoryFields
  <2>1. EntryDirectory \in Seq(BothFields \cup DirectoryFields)
    BY DEF EntryDirectory, BothFields, DirectoryFields
  <2>2. \A f \in BothFields \cup DirectoryFields : \E i \in DOMAIN EntryDirectory : EntryDirectory[i] = f
    BY DEF EntryDirectory, BothFields, DirectoryFields
  <2> QED BY <2>1, <2>2, LenProperties, ElementOfSeq DEF Range
<1>4. EntryFile \in Seq(BothFields \cup FileFields) /\ Range(EntryFile) = BothFields \cup FileFields
  <2>1. EntryFile \in Seq(BothFields \cup FileFields)
    BY DEF EntryFile, BothFields, FileFields
  <2>2. \A f \in BothFields \cup FileFields : \E i \in DOMAIN EntryFile : EntryFile[i] = f
    BY DEF EntryFile, BothFields, FileFields
  <2> QED BY <2>1, <2>2, LenProperties, ElementOfSeq DEF Range
<1>5. EntryFork \in Seq(ForkFields) /\ Range(EntryFork) = ForkFields
  <2>1. EntryFork \in Seq(ForkFields)
    BY DEF EntryFork, ForkFields
  <2>2. \A f \in ForkFields : \E i \in DOMAIN EntryFork : EntryFork[i] = f
    BY DEF EntryFork, ForkFields
  <2> QED BY <2>1, <2>2, LenProperties, ElementOfSeq DEF Range
<1>6. /\ CommonFields \subseteq Selectable /\ BothFields \subseteq Selectable /\ DirectoryFields \subseteq Selectable
      /\ FileFields \subseteq Selectable /\ ForkFields \subseteq Selectable
  BY DEF Selectable
<1>7. \A S \in SUBSET Selectable : Seq(S) \subseteq Seq(Selectable)
  BY SeqDef
<1> QED BY <1>1, <1>2, <1>3, <1>4, <1>5, <1>6, <1>7

\* A field is in one group, or in those of directories and files.
LEMMA FieldsAreApart ==
    /\ CommonFields \cap ForkFields = {}
    /\ CommonFields \cap (BothFields \cup DirectoryFields \cup FileFields) = {}
    /\ ForkFields \cap (BothFields \cup DirectoryFields \cup FileFields) = {}
    /\ Always \cap (BothFields \cup DirectoryFields \cup FileFields) = {}
    /\ BothFields \cap DirectoryFields = {} /\ BothFields \cap FileFields = {}
    /\ DirectoryFields \cap FileFields = {} /\ Always \cap Selectable = {}
BY DEF CommonFields, ForkFields, BothFields, DirectoryFields, FileFields, Always, Selectable

\* Those of a group.
LEMMA GroupCells ==
    ASSUME NEW group \in Groups, NEW attributes \in SUBSET Askable
    PROVE  /\ Cells(KernelOrder, group, attributes) \in Seq(Asking)
           /\ Range(Cells(KernelOrder, group, attributes)) = {a \in attributes : a[1] = group}
<1> DEFINE c(g) == Cells(KernelOrder, g, attributes)
<1>1. KernelOrder[group] \in Seq(Selectable) /\ Range(KernelOrder[group]) = FieldsOf[group]
  <2>1. CASE group = "common"
    BY <2>1, TablesAreComplete DEF FieldsOf
  <2>2. CASE group = "directory"
    BY <2>2, TablesAreComplete DEF FieldsOf
  <2>3. CASE group = "file"
    BY <2>3, TablesAreComplete DEF FieldsOf
  <2>4. CASE group = "fork"
    BY <2>4, TablesAreComplete DEF FieldsOf
  <2> QED BY <2>1, <2>2, <2>3, <2>4 DEF Groups
<1>2. /\ c(group) \in Seq({group} \X Selectable)
      /\ \A a : a \in Range(c(group)) <=> a \in attributes /\ \E f \in FieldsOf[group] : a = <<group, f>>
  <2>1. /\ c(group) \in Seq({group} \X Selectable)
        /\ \A a : a \in Range(c(group))
                   <=> a \in attributes /\ \E f \in Range(KernelOrder[group]) : a = <<group, f>>
    <3>1. AreCells(c(group), KernelOrder[group], group, attributes)
      BY <1>1, CellsHave
    <3> HIDE DEF c
    <3> QED BY <3>1 DEF AreCells
  <2> HIDE DEF c
  <2> QED BY <1>1, <2>1
<1> HIDE DEF c
<1>3. c(group) \in Seq(Asking)
  BY <1>2, SeqDef DEF Asking
<1>4. \A a \in attributes : a = <<a[1], a[2]>> /\ a[2] \in FieldsOf[a[1]]
  BY DEF Askable, Asking
<1>5. \A a \in attributes : a[1] = group <=> \E f \in FieldsOf[group] : a = <<group, f>>
  BY <1>4
<1> QED BY <1>2, <1>3, <1>5 DEF c

Kinds == {"directory", "file"}

\* None when nothing of the groups is asked for that depend on the type.
LEMMA NoneOfGroup ==
    ASSUME NEW attributes \in SUBSET Askable, ~ Grouped(attributes)
    PROVE  Cells(KernelOrder, "directory", attributes) = <<>> /\ Cells(KernelOrder, "file", attributes) = <<>>
<1>1. ASSUME NEW group \in {"directory", "file"}
      PROVE  Cells(KernelOrder, group, attributes) = <<>>
  <2> DEFINE c == Cells(KernelOrder, group, attributes)
  <2>1. c \in Seq(Asking) /\ Range(c) = {a \in attributes : a[1] = group}
    BY GroupCells DEF Groups
  <2>2. Range(c) = {}
    BY <2>1 DEF Grouped
  <2> HIDE DEF c
  <2>3. Len(c) \in Nat /\ DOMAIN c = 1 .. Len(c)
    BY <2>1, LenProperties
  <2>4. \A i \in DOMAIN c : FALSE
    BY <2>2 DEF Range
  <2>5. Len(c) = 0
    BY <2>3, <2>4
  <2>6. c = <<>>
    BY <2>1, <2>5, EmptySeq, SeqEqual
  <2> QED BY <2>6 DEF c
<1> QED BY <1>1

\* The cells of an entry: those of its groups, the common ones first.
LEMMA CellsOfAnEntry ==
    ASSUME NEW kind \in Kinds, NEW attributes \in SUBSET Askable
    PROVE  LET cells == CellsOf(KernelOrder, kind, attributes)
               common == Cells(KernelOrder, "common", attributes)
           IN /\ cells \in Seq(Asking) /\ common \in Seq(Asking)
              /\ Range(cells) = {a \in attributes : a[1] \in {"common", "fork", kind}}
              /\ Range(common) = {a \in attributes : a[1] = "common"}
              /\ Len(common) <= Len(cells)
              /\ \A i \in 1 .. Len(common) : cells[i] = common[i]
<1> DEFINE c(group) == Cells(KernelOrder, group, attributes)
<1>1. \A group \in Groups : c(group) \in Seq(Asking) /\ Range(c(group)) = {a \in attributes : a[1] = group}
  BY GroupCells
<1>2. {"common", "fork", kind} \subseteq Groups
  BY DEF Groups, Kinds
<1>3. CellsOf(KernelOrder, kind, attributes) = c("common") \o c(kind) \o c("fork")
  BY DEF CellsOf, Kinds
<1> HIDE DEF c
<1> DEFINE cells == c("common") \o c(kind) \o c("fork")
<1>4. c("common") \in Seq(Asking) /\ c(kind) \in Seq(Asking) /\ c("fork") \in Seq(Asking)
  BY <1>1, <1>2
<1>5. /\ cells \in Seq(Asking) /\ Len(c("common")) <= Len(cells)
      /\ \A i \in 1 .. Len(c("common")) : cells[i] = c("common")[i]
      /\ Range(cells) = Range(c("common")) \cup Range(c(kind)) \cup Range(c("fork"))
  BY <1>4, ThreeInARow
<1>6. /\ Range(c("common")) = {a \in attributes : a[1] = "common"}
      /\ Range(c(kind)) = {a \in attributes : a[1] = kind}
      /\ Range(c("fork")) = {a \in attributes : a[1] = "fork"}
  BY <1>1, <1>2
<1> HIDE DEF cells
<1>7. Range(cells) = {a \in attributes : a[1] \in {"common", "fork", kind}}
  BY <1>5, <1>6
<1> QED BY <1>3, <1>4, <1>5, <1>6, <1>7 DEF cells, c

\* Of a field an entry has one cell.
LEMMA OneCell ==
    ASSUME NEW kind \in Kinds, NEW a \in Askable, NEW b \in Askable, a[2] = b[2],
           a[1] \in {"common", "fork", kind}, b[1] \in {"common", "fork", kind}
    PROVE  a = b
<1>1. a = <<a[1], a[2]>> /\ b = <<b[1], b[2]>> /\ a[2] \in FieldsOf[a[1]] /\ b[2] \in FieldsOf[b[1]]
  BY DEF Askable, Asking
<1>2. /\ FieldsOf["common"] \cap FieldsOf["fork"] = {}
      /\ FieldsOf["common"] \cap FieldsOf[kind] = {} /\ FieldsOf["fork"] \cap FieldsOf[kind] = {}
  <2>1. /\ FieldsOf["common"] = CommonFields /\ FieldsOf["fork"] = ForkFields
        /\ FieldsOf["directory"] = BothFields \cup DirectoryFields /\ FieldsOf["file"] = BothFields \cup FileFields
    BY DEF FieldsOf
  <2> QED BY <2>1, FieldsAreApart DEF Kinds
<1>3. a[1] = b[1]
  BY <1>1, <1>2
<1> QED BY <1>1, <1>3

\* What is asked for can be, has the type if it has a group that depends on it,
\* and has such a group when one of its fields was selected.
LEMMA WhatIsAsked ==
    ASSUME NEW chosen \in SUBSET (Selectable \cup Always)
    PROVE  /\ AttributesOf(chosen) \in SUBSET Askable
           /\ Grouped(AttributesOf(chosen)) => <<"common", "type">> \in AttributesOf(chosen)
           /\ Grouped(AttributesOf(chosen))
                <=> chosen \cap (BothFields \cup DirectoryFields \cup FileFields) # {}
<1> DEFINE plain == UNION {Attributes(f) : f \in chosen}
           typed == <<"common", "type">>
<1>1. ASSUME NEW f \in chosen
      PROVE  /\ Attributes(f) \in SUBSET Askable
             /\ Grouped(Attributes(f)) <=> f \in BothFields \cup DirectoryFields \cup FileFields
  <2>1. Attributes(f) \in SUBSET Askable
    BY DEF Attributes, Askable, Asking, Groups, FieldsOf, Selectable
  <2>2. Grouped(Attributes(f)) => f \in BothFields \cup DirectoryFields \cup FileFields
    BY DEF Attributes, Grouped
  <2>3. f \in BothFields \cup DirectoryFields => <<"directory", f>> \in Attributes(f)
    BY DEF Attributes
  <2>4. f \in FileFields => <<"file", f>> \in Attributes(f)
    BY DEF Attributes
  <2>5. \A g : <<"directory", g>>[1] = "directory" /\ <<"file", g>>[1] = "file"
    OBVIOUS
  <2> QED BY <2>1, <2>2, <2>3, <2>4, <2>5 DEF Grouped
<1>2. typed \in Askable /\ typed[1] = "common"
  BY DEF Askable, Asking, Groups, FieldsOf, Selectable, CommonFields
<1>3. plain \in SUBSET Askable
  BY <1>1
<1>4. Grouped(plain) <=> chosen \cap (BothFields \cup DirectoryFields \cup FileFields) # {}
  <2>1. Grouped(plain) <=> \E f \in chosen : Grouped(Attributes(f))
    BY DEF Grouped
  <2> QED BY <1>1, <2>1
<1>5. AttributesOf(chosen) = IF Grouped(plain) THEN plain \cup {typed} ELSE plain
  BY DEF AttributesOf
<1> HIDE DEF plain, typed
<1>6. Grouped(plain \cup {typed}) <=> Grouped(plain)
  BY <1>2 DEF Grouped
<1> QED BY <1>2, <1>3, <1>4, <1>5, <1>6 DEF typed

\* The three widths of a field are the same.
LEMMA WidthsAgree ==
    ASSUME NEW f \in Selectable
    PROVE  StoredSize(f) = ColumnWidth(f) /\ DecodedWidth(f) = ColumnWidth(f)
<1> DEFINE Pointers == {"acl", "filesystem_id", "real_filesystem_id"}
           Longs == {"device", "file_id", "parent_id", "link_id", "real_device", "clone_id",
                     "extended_flags", "recursive_generation_count", "attribution_tag"}
           Sizes == {"total_size", "allocated_size", "data_size", "data_allocated_size",
                     "resource_fork_size", "resource_fork_allocated_size", "private_size"}
           Wide == TimeFields \cup {"owner_uuid", "group_uuid"}
<1>1. StoredSize(f) = ColumnWidth(f)
  BY DEF StoredSize, ColumnWidth
<1>2. \/ f = "type" \/ f = "finder_info" \/ f \in Wide \/ f \in WordFields
      \/ f \in Pointers \/ f \in Longs \/ f \in Sizes
  BY DEF Selectable, CommonFields, BothFields, DirectoryFields, FileFields, ForkFields, WordFields, TimeFields
<1>3. /\ "type" \notin Wide \cup WordFields /\ "finder_info" \notin Wide \cup WordFields
      /\ Wide \cap WordFields = {} /\ (Pointers \cup Longs \cup Sizes) \cap (Wide \cup WordFields) = {}
      /\ "type" \notin Pointers \cup Longs \cup Sizes /\ "finder_info" \notin Pointers \cup Longs \cup Sizes
      /\ Pointers \cap Longs = {} /\ Pointers \cap Sizes = {} /\ Longs \cap Sizes = {}
  BY DEF TimeFields, WordFields
<1>4. ColumnWidth(f) = CASE f = "type" -> 1
                         [] f = "finder_info" -> 32
                         [] f \in Wide -> 16
                         [] f \in WordFields -> 4
                         [] OTHER -> 8
  BY DEF ColumnWidth
<1>5. DecodedWidth(f) = CASE f = "type" -> 1
                          [] f = "finder_info" -> 32
                          [] f \in Wide -> 16
                          [] f \in WordFields -> 4
                          [] f \in Pointers -> 8
                          [] f \in Longs -> 8
                          [] f \in Sizes -> 8
                          [] OTHER -> 0
  BY DEF DecodedWidth
<1> HIDE DEF Pointers, Longs, Sizes, Wide
<1>6. DecodedWidth(f) = ColumnWidth(f)
  <2>1. CASE f \in Pointers \cup Longs \cup Sizes
    BY <1>3, <1>4, <1>5, <2>1
  <2>2. CASE f \in WordFields
    BY <1>3, <1>4, <1>5, <2>2
  <2>3. CASE f \in Wide
    BY <1>3, <1>4, <1>5, <2>3
  <2>4. CASE f = "type" \/ f = "finder_info"
    BY <1>3, <1>4, <1>5, <2>4
  <2> QED BY <1>2, <2>1, <2>2, <2>3, <2>4
<1> QED BY <1>1, <1>6

\* What a configured cursor asks for.
Configured ==
    \E chosen \in Selections : /\ chosen \subseteq Selectable \cup Always
                               /\ requested = chosen \cup Always
                               /\ asked = AttributesOf(chosen)

\* What the kernel has returned: all cells, or all but the last.
Returned ==
    /\ record.kind \in Kinds
    /\ ~ record.error =>
         LET cells == CellsOf(KernelOrder, record.kind, asked)
         IN record.cells = cells \/ (cells # <<>> /\ record.cells = Front(cells))

\* What DecodersAreExact says of the two results.
AreExact(struct, columns) ==
    LET own(f) == {a \in record.returned : a[2] = f /\ a[1] \in {"common", "fork", record.kind}}
        true(f) == IF record.error \/ own(f) = {} THEN NIL ELSE CHOOSE a \in own(f) : TRUE
        short == ~ record.error /\ Len(record.cells) < Len(CellsOf(KernelOrder, record.kind, asked))
        malformed == \/ short \/ ~ (record.returned \subseteq asked)
                     \/ (~ record.error /\ ~ record.named)
        untyped == /\ ~ record.error
                   /\ requested \cap (BothFields \cup DirectoryFields \cup FileFields) # {}
                   /\ <<"common", "type">> \notin record.returned
    IN /\ struct = columns
       /\ (struct = NIL) = (malformed \/ untyped)
       /\ struct # NIL => struct = [f \in requested \ Always |-> true(f)]

RecordInv ==
    /\ decoding \in {"configuring", "refused", "reading", "read", "decoded"}
    /\ decoding = "configuring" => requested \in Selections
    /\ decoding \in {"reading", "read", "decoded"} => Configured
    /\ decoding \in {"read", "decoded"} => Returned
    /\ decoding = "decoded" => AreExact(parsed, unpacked)

\* A decoder in the kernel's order takes the cells as they are, unless it finds
\* that some are missing; and it finds that when they are.
LEMMA TakenAsPacked ==
    ASSUME Configured, Returned, ~ record.error
    PROVE  LET full == CellsOf(KernelOrder, record.kind, asked)
           IN /\ full \in Seq(Asking) /\ record.cells \in Seq(Asking)
              /\ Len(Taken(KernelOrder)) <= Len(record.cells) <=> Len(full) <= Len(record.cells)
              /\ Len(full) <= Len(record.cells) => Taken(KernelOrder) = full /\ record.cells = full
<1> DEFINE full == CellsOf(KernelOrder, record.kind, asked)
           common == Cells(KernelOrder, "common", asked)
           took == Taken(KernelOrder)
           cells == record.cells
           typed == <<"common", "type">>
           seen == \E i \in DOMAIN common : /\ common[i] = typed /\ i \in DOMAIN cells
                                            /\ cells[i] = typed /\ record.kind = "directory"
           kind == IF seen THEN "directory" ELSE "file"
<1>1. asked \in SUBSET Askable /\ (Grouped(asked) => typed \in asked)
  <2>1. PICK chosen \in Selections : chosen \subseteq Selectable \cup Always /\ asked = AttributesOf(chosen)
    BY DEF Configured
  <2> QED BY <2>1, WhatIsAsked
<1>2. record.kind \in Kinds /\ kind \in Kinds
  BY DEF Returned, Kinds
<1>3. took = CellsOf(KernelOrder, kind, asked)
  BY DEF Taken
<1>4. cells = full \/ (full # <<>> /\ cells = Front(full))
  BY DEF Returned
<1>5. /\ full \in Seq(Asking) /\ common \in Seq(Asking) /\ Len(common) <= Len(full)
      /\ \A i \in 1 .. Len(common) : full[i] = common[i]
      /\ Range(common) = {a \in asked : a[1] = "common"}
  BY <1>1, <1>2, CellsOfAnEntry
<1>6. took \in Seq(Asking) /\ Len(common) <= Len(took)
  BY <1>1, <1>2, <1>3, CellsOfAnEntry
<1>7. /\ Len(full) \in Nat /\ Len(common) \in Nat /\ Len(took) \in Nat
      /\ DOMAIN common = 1 .. Len(common)
  BY <1>5, <1>6, LenProperties
<1> HIDE DEF full, common, took, cells, typed, kind
<1>8. /\ cells \in Seq(Asking) /\ Len(cells) \in Nat /\ DOMAIN cells = 1 .. Len(cells)
      /\ \A i \in DOMAIN cells : i \in 1 .. Len(full) /\ cells[i] = full[i]
      /\ cells = full \/ Len(cells) = Len(full) - 1
  <2>1. CASE cells = full
    BY <1>5, <1>7, <2>1, LenProperties
  <2>2. CASE full # <<>> /\ cells = Front(full)
    <3>1. cells = SubSeq(full, 1, Len(full) - 1)
      BY <2>2 DEF Front
    <3>2. Len(full) # 0 /\ \A i \in 1 .. Len(full) : full[i] \in Asking
      BY <1>5, <2>2, EmptySeq, ElementOfSeq
    <3>3. Len(full) - 1 \in Nat /\ \A i \in 1 .. Len(full) - 1 : i \in 1 .. Len(full) /\ 1 + i - 1 = i
      BY <1>7, <3>2
    <3> DEFINE n == Len(full) - 1
    <3>4. n \in Nat /\ \A i \in 1 .. n : i \in 1 .. Len(full) /\ full[i] \in Asking
      BY <3>2, <3>3
    <3> HIDE DEF n
    <3>5. /\ SubSeq(full, 1, n) \in Seq(Asking)
          /\ Len(SubSeq(full, 1, n)) = IF 1 <= n THEN n - 1 + 1 ELSE 0
          /\ \A i \in 1 .. n - 1 + 1 : SubSeq(full, 1, n)[i] = full[1 + i - 1]
      BY <3>4, SubSeqProperties
    <3>6. cells = SubSeq(full, 1, n)
      BY <3>1 DEF n
    <3>7. Len(cells) = n /\ \A i \in 1 .. n : i \in 1 .. n - 1 + 1 /\ 1 + i - 1 = i
      BY <3>4, <3>5, <3>6
    <3>8. cells \in Seq(Asking) /\ \A i \in 1 .. n : i \in 1 .. Len(full) /\ cells[i] = full[i]
      BY <3>4, <3>5, <3>6, <3>7
    <3>9. DOMAIN cells = 1 .. n /\ Len(cells) \in Nat
      BY <3>7, <3>8, LenProperties
    <3> QED BY <3>7, <3>8, <3>9 DEF n
  <2> QED BY <1>4, <2>1, <2>2
<1> DEFINE same == /\ Len(took) <= Len(cells) <=> Len(full) <= Len(cells)
                   /\ Len(full) <= Len(cells) => took = full /\ cells = full
<1>9. ASSUME kind = record.kind PROVE same
  <2>1. took = full
    BY <1>3, <1>9 DEF full
  <2> QED BY <1>7, <1>8, <2>1
<1>10. ASSUME kind # record.kind PROVE same
  <2>1. kind = "file" /\ record.kind = "directory" /\ ~ seen
    BY <1>2, <1>10 DEF kind, Kinds
  <2>2. CASE typed \notin asked
    <3>1. ~ Grouped(asked)
      BY <1>1, <2>2
    <3>2. Cells(KernelOrder, "directory", asked) = <<>> /\ Cells(KernelOrder, "file", asked) = <<>>
      BY <1>1, <3>1, NoneOfGroup
    <3>3. took = full
      BY <1>3, <3>2 DEF full, CellsOf
    <3> QED BY <1>7, <1>8, <3>3
  <2>3. CASE typed \in asked
    <3>1. PICK i \in DOMAIN common : common[i] = typed
      <4>1. typed \in Range(common)
        BY <1>5, <2>3 DEF typed
      <4> QED BY <4>1 DEF Range
    <3>2. i \notin DOMAIN cells
      <4>1. i \in DOMAIN cells => cells[i] = typed
        BY <1>5, <1>7, <1>8, <3>1
      <4> QED BY <2>1, <3>1, <4>1
    <3>3. Len(cells) < Len(common)
      BY <1>7, <1>8, <3>1, <3>2
    <3> QED BY <1>5, <1>6, <1>7, <1>8, <3>3
  <2> QED BY <2>2, <2>3
<1> QED BY <1>5, <1>8, <1>9, <1>10 DEF full, cells, took

\* The order of both decoders is the kernel's.
LEMMA OrdersAgree == EntryOrder = KernelOrder /\ PackedOrder = KernelOrder
BY DEF EntryOrder, EntryCommon, EntryDirectory, EntryFile, EntryFork, PackedOrder, PackedCommon,
       PackedDirectory, PackedFile, PackedFork, KernelOrder

\* The cells of a field that mean something, and what the field should be.
Own(f) == {a \in record.returned : a[2] = f /\ a[1] \in {"common", "fork", record.kind}}
True(f) == IF record.error \/ Own(f) = {} THEN NIL ELSE CHOOSE a \in Own(f) : TRUE

Malformed ==
    \/ ~ record.error /\ Len(record.cells) < Len(CellsOf(KernelOrder, record.kind, asked))
    \/ ~ (record.returned \subseteq asked)
    \/ ~ record.error /\ ~ record.named
Untyped ==
    /\ ~ record.error
    /\ requested \cap (BothFields \cup DirectoryFields \cup FileFields) # {}
    /\ <<"common", "type">> \notin record.returned

\* A record is accepted unless something is wrong with it.
LEMMA AcceptedUnlessWrong ==
    ASSUME Configured, Returned
    PROVE  Accepted(KernelOrder) <=> ~ Malformed /\ ~ Untyped
<1>1. Grouped(asked) <=> requested \cap (BothFields \cup DirectoryFields \cup FileFields) # {}
  <2>1. PICK chosen \in Selections : /\ chosen \subseteq Selectable \cup Always
                                     /\ requested = chosen \cup Always /\ asked = AttributesOf(chosen)
    BY DEF Configured
  <2>2. Grouped(asked) <=> chosen \cap (BothFields \cup DirectoryFields \cup FileFields) # {}
    BY <2>1, WhatIsAsked
  <2> QED BY <2>1, <2>2, FieldsAreApart
<1>2. CASE record.error
  BY <1>2 DEF Accepted, Malformed, Untyped
<1>3. CASE ~ record.error
  <2> DEFINE full == CellsOf(KernelOrder, record.kind, asked)
             took == Taken(KernelOrder)
             cells == record.cells
  <2>1. Len(took) <= Len(cells) <=> Len(full) <= Len(cells)
    BY <1>3, TakenAsPacked
  <2>2. Len(full) \in Nat /\ Len(cells) \in Nat
    <3>1. full \in Seq(Asking) /\ cells \in Seq(Asking)
      BY <1>3, TakenAsPacked
    <3> HIDE DEF full, cells
    <3> QED BY <3>1, LenProperties
  <2>3. Len(full) <= Len(cells) <=> ~ (Len(cells) < Len(full))
    BY <2>2
  <2> HIDE DEF full, took, cells
  <2>4. Accepted(KernelOrder) <=> /\ record.returned \subseteq asked /\ record.named
                                  /\ Grouped(asked) => <<"common", "type">> \in record.returned
                                  /\ Len(took) <= Len(cells)
    BY <1>3 DEF Accepted, took, cells
  <2>5. Malformed <=> \/ Len(cells) < Len(full) \/ ~ (record.returned \subseteq asked)
                      \/ ~ record.named
    BY <1>3 DEF Malformed, full, cells
  <2>6. Untyped <=> Grouped(asked) /\ <<"common", "type">> \notin record.returned
    BY <1>1, <1>3 DEF Untyped
  <2> QED BY <2>1, <2>3, <2>4, <2>5, <2>6
<1> QED BY <1>2, <1>3

\* The cell that is taken for a field is its own.
LEMMA CellIsOwn ==
    ASSUME Configured, Returned, Accepted(KernelOrder), NEW f
    PROVE  CellFor(KernelOrder, f) = True(f) /\ True(f) \in Asking \cup {NIL}
<1>1. CASE record.error
  BY <1>1 DEF CellFor, True
<1>2. CASE ~ record.error
  <2> DEFINE took == Taken(KernelOrder)
             its == {i \in DOMAIN took : took[i][2] = f /\ took[i] \in record.returned}
             pick == CHOOSE i \in its : TRUE
             own == Own(f)
  <2>1. asked \in SUBSET Askable
    BY WhatIsAsked DEF Configured
  <2>2. record.returned \subseteq asked /\ record.kind \in Kinds
    BY DEF Accepted, Returned
  <2>3. took = CellsOf(KernelOrder, record.kind, asked) /\ record.cells = took
    <3>1. Len(took) <= Len(record.cells)
      BY <1>2 DEF Accepted
    <3> QED BY <1>2, <3>1, TakenAsPacked
  <2>4. Range(took) = {a \in asked : a[1] \in {"common", "fork", record.kind}}
    <3> HIDE DEF took
    <3> QED BY <2>1, <2>2, <2>3, CellsOfAnEntry
  <2>5. CellFor(KernelOrder, f) = IF its = {} THEN NIL ELSE took[pick]
    BY <1>2, <2>3 DEF CellFor
  <2>6. True(f) = IF own = {} THEN NIL ELSE CHOOSE a \in own : TRUE
    BY <1>2 DEF True
  <2>7. \A a \in own : a \in asked /\ a[2] = f /\ a[1] \in {"common", "fork", record.kind} /\ a \in record.returned
    BY <2>2 DEF Own
  <2>8. \A a, b \in own : a = b
    <3> HIDE DEF own
    <3> QED BY <2>1, <2>2, <2>7, OneCell
  <2>9. \A i \in its : took[i] \in own
    <3> SUFFICES ASSUME NEW i \in its PROVE took[i] \in own
      OBVIOUS
    <3>1. took[i] \in Range(took) /\ took[i][2] = f /\ took[i] \in record.returned
      BY DEF Range
    <3> HIDE DEF took, its
    <3> QED BY <2>4, <3>1 DEF Own
  <2>10. own # {} => its # {}
    <3> SUFFICES ASSUME NEW a \in own PROVE its # {}
      OBVIOUS
    <3>1. a \in Range(took)
      <4> HIDE DEF own, took
      <4> QED BY <2>4, <2>7
    <3>2. PICK i \in DOMAIN took : took[i] = a
      BY <3>1 DEF Range
    <3>3. took[i][2] = f /\ took[i] \in record.returned
      <4> HIDE DEF own, took
      <4> QED BY <2>7, <3>2
    <3> QED BY <3>2, <3>3
  <2> HIDE DEF took, its, own
  <2>11. its # {} => pick \in its
    BY DEF its
  <2>12. CellFor(KernelOrder, f) = True(f)
    <3>1. CASE its = {}
      BY <2>5, <2>6, <2>10, <3>1
    <3>2. CASE its # {}
      <4>1. took[pick] \in own
        BY <2>9, <2>11, <3>2
      <4>2. (CHOOSE a \in own : TRUE) \in own
        BY <4>1
      <4> QED BY <2>5, <2>6, <2>8, <3>2, <4>1, <4>2
    <3> QED BY <3>1, <3>2
  <2>13. True(f) \in Asking \cup {NIL}
    <3>1. CASE own = {}
      BY <2>6, <3>1
    <3>2. CASE own # {}
      <4>1. True(f) \in own
        BY <2>6, <3>2
      <4>2. True(f) \in Askable
        BY <2>1, <2>7, <4>1
      <4> QED BY <4>2 DEF Askable
    <3> QED BY <3>1, <3>2
  <2> QED BY <2>12, <2>13
<1> QED BY <1>1, <1>2

\* What the two decoders make of a record.
LEMMA DecodedExactly ==
    ASSUME Configured, Returned
    PROVE  AreExact(ParsedEntry, PackedRow)
<1>1. PICK chosen \in Selections : /\ chosen \subseteq Selectable \cup Always
                                   /\ requested = chosen \cup Always
  BY DEF Configured
<1>2. Shown = chosen \ Always /\ Shown = requested \ Always /\ Shown \subseteq Selectable
  BY <1>1 DEF Shown
<1> DEFINE right == [f \in Shown |-> True(f)]
<1>3. ParsedEntry = IF Accepted(KernelOrder) THEN right ELSE NIL
  <2>1. Accepted(KernelOrder) => \A f \in Shown : CellFor(KernelOrder, f) = True(f)
    BY CellIsOwn
  <2>2. ParsedEntry = IF Accepted(KernelOrder) THEN [f \in Shown |-> CellFor(KernelOrder, f)] ELSE NIL
    BY OrdersAgree DEF ParsedEntry
  <2> QED BY <2>1, <2>2
<1>4. PackedRow = IF Accepted(KernelOrder) THEN right ELSE NIL
  <2>1. Accepted(KernelOrder) => \A f \in Shown : PackedValue(f) = True(f)
    <3> SUFFICES ASSUME Accepted(KernelOrder), NEW f \in Shown PROVE PackedValue(f) = True(f)
      OBVIOUS
    <3>1. StoredSize(f) = ColumnWidth(f) /\ DecodedWidth(f) = ColumnWidth(f)
      BY <1>2, WidthsAgree
    <3>2. CellFor(PackedOrder, f) = True(f)
      BY CellIsOwn, OrdersAgree
    <3> QED BY <3>1, <3>2 DEF PackedValue
  <2>2. PackedRow = IF Accepted(KernelOrder) THEN [f \in Shown |-> PackedValue(f)] ELSE NIL
    BY OrdersAgree DEF PackedRow
  <2> QED BY <2>1, <2>2
<1>5. Accepted(KernelOrder) => right # NIL
  <2> SUFFICES ASSUME Accepted(KernelOrder) PROVE right # NIL
    OBVIOUS
  <2>1. right \in [Shown -> Asking \cup {NIL}]
    BY CellIsOwn
  <2>2. NIL \notin [Shown -> Asking \cup {NIL}]
    BY <1>1, <1>2, NilAssumption
  <2> QED BY <2>1, <2>2
<1>6. Accepted(KernelOrder) <=> ~ Malformed /\ ~ Untyped
  BY AcceptedUnlessWrong
<1>7. /\ ParsedEntry = PackedRow
      /\ (ParsedEntry = NIL) = (Malformed \/ Untyped)
      /\ ParsedEntry # NIL => ParsedEntry = [f \in requested \ Always |-> True(f)]
  <2>1. right = [f \in requested \ Always |-> True(f)]
    BY <1>2
  <2> HIDE DEF right
  <2> QED BY <1>3, <1>4, <1>5, <1>6, <2>1
<1> QED BY <1>7 DEF AreExact, Malformed, Untyped, True, Own

(***************************************************************************)
(* For every selection of fields and every record, struct and columns are  *)
(* the same entry, and the true one (parse_entry, parse_packed_entry and   *)
(* Findex.Batch).                                                          *)
(***************************************************************************)
THEOREM FormatsAgree == RecordSpec => []DecodersAreExact
<1>1. InitRecord => RecordInv
  BY DEF InitRecord, RecordInv
<1>2. RecordInv /\ [NextRecord]_records => RecordInv'
  <2> SUFFICES ASSUME RecordInv, [NextRecord]_records PROVE RecordInv'
    OBVIOUS
  <2>1. CASE Configure
    <3>1. CASE decoding' = "reading"
      <4>1. /\ requested \in Selections /\ requested \subseteq Selectable \cup Always
            /\ requested' = requested \cup Always /\ asked' = AttributesOf(requested)
        BY <2>1, <3>1 DEF Configure, RecordInv
      <4>2. Configured'
        BY <4>1 DEF Configured
      <4> QED BY <3>1, <4>2 DEF RecordInv
    <3>2. CASE decoding' = "refused"
      BY <3>2 DEF RecordInv
    <3> QED BY <2>1, <3>1, <3>2 DEF Configure
  <2>2. CASE KernelReturns
    <3>1. Configured /\ decoding' = "read" /\ requested' = requested /\ asked' = asked
      BY <2>2 DEF KernelReturns, RecordInv
    <3>2. Configured'
      BY <3>1 DEF Configured
    <3>3. PICK kind \in {"directory", "file"}, error, named, whole \in BOOLEAN :
            \E returned \in {asked, {}} \cup {asked \ {a} : a \in asked}
                              \cup {asked \cup {<<"common", "object_permanent_id">>}} :
              LET cells == CellsOf(KernelOrder, kind, asked)
              IN record' = [kind |-> kind, error |-> error, named |-> named, returned |-> returned,
                            cells |-> IF error THEN <<>>
                                      ELSE IF whole \/ cells = <<>> THEN cells ELSE Front(cells)]
      BY <2>2 DEF KernelReturns
    <3>4. LET cells == CellsOf(KernelOrder, kind, asked)
          IN /\ record'.kind = kind /\ record'.error = error
             /\ record'.cells = IF error THEN <<>> ELSE IF whole \/ cells = <<>> THEN cells ELSE Front(cells)
      <4> DEFINE cells == CellsOf(KernelOrder, kind, asked)
                 those == IF error THEN <<>> ELSE IF whole \/ cells = <<>> THEN cells ELSE Front(cells)
      <4>1. PICK returned : record' = [kind |-> kind, error |-> error, named |-> named,
                                       returned |-> returned, cells |-> those]
        BY <3>3
      <4> HIDE DEF those
      <4>2. record'.kind = kind /\ record'.error = error /\ record'.cells = those
        BY <4>1
      <4> QED BY <4>2 DEF those
    <3>5. Returned'
      BY <3>1, <3>4 DEF Returned, Kinds
    <3> QED BY <3>1, <3>2, <3>5 DEF RecordInv
  <2>3. CASE DecodeRecord
    <3>1. /\ Configured /\ Returned /\ decoding' = "decoded" /\ requested' = requested /\ asked' = asked
          /\ record' = record /\ parsed' = ParsedEntry /\ unpacked' = PackedRow
      BY <2>3 DEF DecodeRecord, RecordInv
    <3>2. Configured' /\ Returned'
      BY <3>1 DEF Configured, Returned
    <3>3. AreExact(ParsedEntry, PackedRow)
      BY <3>1, DecodedExactly
    <3>4. AreExact(parsed, unpacked)'
      <4> HIDE DEF ParsedEntry, PackedRow
      <4> QED BY <3>1, <3>3 DEF AreExact
    <3> QED BY <3>1, <3>2, <3>4 DEF RecordInv
  <2>4. CASE UNCHANGED records
    <3>1. decoding' = decoding /\ requested' = requested /\ asked' = asked /\ record' = record
          /\ parsed' = parsed /\ unpacked' = unpacked
      BY <2>4 DEF records
    <3> QED BY <3>1 DEF RecordInv, Configured, Returned, AreExact
  <2> QED BY <2>1, <2>2, <2>3, <2>4 DEF NextRecord
<1>3. RecordInv => DecodersAreExact
  BY DEF RecordInv, AreExact, DecodersAreExact
<1> QED BY <1>1, <1>2, <1>3, PTL DEF RecordSpec
=============================================================================
