----------------------------- MODULE ArtifactsProofs -----------------------------
(***************************************************************************)
(* What a process serves and what it refuses, however often preparations   *)
(* run, stop and start again, and whatever the samples of a file show.     *)
(***************************************************************************)
EXTENDS Artifacts, TLAPS

\* Files that a preparation has finished are whole; the documents are then of the edition
\* of the cases they were made from, and a manifest only ever describes such files.
Prepared ==
    /\ open \/ written > 0 => preparing # None
    /\ \A k \in 1 .. written : disk[WriteOrder[k]] \in Editions
    /\ written >= 5 => disk["failure_documents"] = disk["failure_cases"]
    /\ manifest["failure_documents"] = manifest["failure_cases"]
    /\ seen["failure_documents"] = seen["failure_cases"]

\* What an undisturbed process has found out so far.
Verified ==
    quiet =>
        /\ loader \notin {"down", "refused"} => seen = manifest
        /\ loader = "checking" => \A k \in 1 .. next : Matches(CheckOrder[k])
        /\ loader \in {"reading", "aligning", "ready"} => \A f \in Names : Matches(f)
        /\ loader = "reading" => \A k \in 1 .. next :
              ReadOrder[k] \notin Mapped => loaded[ReadOrder[k]] = disk[ReadOrder[k]]
        /\ loader \in {"aligning", "ready"} => \A f \in Names \ Mapped : loaded[f] = disk[f]
        /\ loader = "ready" => Aligned

IInv == ArtifactsTypeOK /\ Prepared /\ Verified /\ RefusedForCause
-----------------------------------------------------------------------------
LEMMA Orders ==
    /\ Len(WriteOrder) = 6 /\ Len(CheckOrder) = 6 /\ Len(ReadOrder) = 6
    /\ WriteOrder[1] = "company_metadata" /\ WriteOrder[2] = "company_embeddings"
    /\ WriteOrder[3] = "failure_cases" /\ WriteOrder[4] = "benchmarks"
    /\ WriteOrder[5] = "failure_documents" /\ WriteOrder[6] = "failure_embeddings"
    /\ CheckOrder[1] = "company_metadata" /\ CheckOrder[2] = "company_embeddings"
    /\ CheckOrder[3] = "failure_documents" /\ CheckOrder[4] = "failure_embeddings"
    /\ CheckOrder[5] = "failure_cases" /\ CheckOrder[6] = "benchmarks"
    /\ ReadOrder[1] = "company_metadata" /\ ReadOrder[2] = "company_embeddings"
    /\ ReadOrder[3] = "failure_documents" /\ ReadOrder[4] = "failure_cases"
    /\ ReadOrder[5] = "failure_embeddings" /\ ReadOrder[6] = "benchmarks"
BY DEF WriteOrder, CheckOrder, ReadOrder

LEMMA NamesAre ==
    Names = {"company_metadata", "company_embeddings", "failure_cases", "benchmarks",
             "failure_documents", "failure_embeddings"}
<1>1. DOMAIN WriteOrder = 1 .. 6
  BY DEF WriteOrder
<1>2. Names = {WriteOrder[i] : i \in 1 .. 6}
  BY <1>1 DEF Names
<1> QED
  BY <1>2, Orders

\* Every artifact has one place in each order.
LEMMA Places ==
    /\ \A k \in 1 .. 6 : WriteOrder[k] \in Names /\ CheckOrder[k] \in Names /\ ReadOrder[k] \in Names
    /\ \A f \in Names : /\ \E k \in 1 .. 6 : CheckOrder[k] = f
                        /\ \E k \in 1 .. 6 : ReadOrder[k] = f
    /\ \A k, l \in 1 .. 6 : WriteOrder[k] = WriteOrder[l] => k = l
BY Orders, NamesAre
-----------------------------------------------------------------------------
\* Nothing written and nothing learned: the process sees no difference.
LEMMA UndisturbedStep ==
    ASSUME IInv, UNCHANGED <<disk, manifest, process, quiet>>
    PROVE  Verified' /\ RefusedForCause'
BY DEF IInv, Verified, RefusedForCause, process, Matches, Aligned

LEMMA PreparationStep ==
    ASSUME IInv, (\E e \in Editions : Prepare(e)) \/ BeginWrite \/ EndWrite \/ Interrupt
    PROVE  IInv'
<1> USE ArtifactsAssumption DEF IInv
<1>1. CASE \E e \in Editions : Prepare(e)
  <2>1. ArtifactsTypeOK' /\ Prepared'
    BY <1>1 DEF Prepare, ArtifactsTypeOK, Prepared, process, None
  <2>2. UNCHANGED <<disk, manifest, process, quiet>>
    BY <1>1 DEF Prepare
  <2> QED
    BY <2>1, <2>2, UndisturbedStep
<1>2. CASE Interrupt
  <2>1. ArtifactsTypeOK'
    <3>1. /\ preparing' = None /\ written' = 0 /\ open' = FALSE
          /\ UNCHANGED <<disk, manifest, loader, next, seen, loaded, quiet>>
      BY <1>2 DEF Interrupt, process
    <3>2. written' \in 0 .. Len(WriteOrder)
      BY <3>1, Orders
    <3> QED
      BY <3>1, <3>2 DEF ArtifactsTypeOK
  <2>3. Prepared'
    BY <1>2 DEF Interrupt, Prepared, process
  <2>2. UNCHANGED <<disk, manifest, process, quiet>>
    BY <1>2 DEF Interrupt
  <2> QED
    BY <2>1, <2>2, <2>3, UndisturbedStep
<1>3. CASE BeginWrite
  <2>1. /\ preparing # None /\ open' = TRUE /\ quiet' = FALSE
        /\ UNCHANGED <<preparing, written, loader, next, seen, loaded>>
    BY <1>3 DEF BeginWrite, process
  <2>2. CASE /\ written < Len(WriteOrder)
             /\ disk' = [disk EXCEPT ![WriteOrder[written + 1]] = Torn]
             /\ UNCHANGED manifest
    <3>1. written + 1 \in 1 .. 6 /\ WriteOrder[written + 1] \in Names
      BY <2>2, Orders, Places DEF ArtifactsTypeOK
    <3>2. \A k \in 1 .. written : disk'[WriteOrder[k]] = disk[WriteOrder[k]]
      BY <2>2, <3>1, Places DEF ArtifactsTypeOK
    <3>3. written >= 5 => UNCHANGED <<disk["failure_documents"], disk["failure_cases"]>>
      BY <2>2, <3>1, Orders, NamesAre DEF ArtifactsTypeOK
    <3>4. ArtifactsTypeOK'
      BY <2>1, <2>2, <3>1 DEF ArtifactsTypeOK, Contents
    <3> QED
      BY <2>1, <2>2, <3>2, <3>3, <3>4 DEF Prepared, Verified, RefusedForCause
  <2>3. CASE manifest' = NoManifest /\ UNCHANGED disk
    <3>1. /\ NoManifest \in [Names -> Editions \cup {None}]
          /\ NoManifest["failure_documents"] = NoManifest["failure_cases"]
      BY NamesAre DEF NoManifest
    <3> QED
      BY <2>1, <2>3, <3>1 DEF ArtifactsTypeOK, Prepared, Verified, RefusedForCause
  <2> QED
    BY <1>3, <2>2, <2>3 DEF BeginWrite
<1>4. CASE EndWrite
  <2>1. /\ open /\ open' = FALSE /\ quiet' = FALSE /\ preparing \in Editions
        /\ UNCHANGED <<loader, next, seen, loaded>>
    BY <1>4 DEF EndWrite, process, ArtifactsTypeOK, Prepared
  <2>2. CASE /\ written < Len(WriteOrder)
             /\ LET f == WriteOrder[written + 1] IN disk' = [disk EXCEPT ![f] = Made(f)]
             /\ written' = written + 1
             /\ UNCHANGED <<manifest, preparing>>
    <3> DEFINE f == WriteOrder[written + 1]
    <3>1. written \in 0 .. 5 /\ f \in Names
      BY <2>2, Orders, Places DEF ArtifactsTypeOK
    <3>2. Made(f) \in Editions
      <4>1. f \in {"failure_documents", "failure_embeddings"} => written >= 4
        BY <3>1, Orders
      <4>2. written >= 4 => disk["failure_cases"] \in Editions
        BY <3>1, Orders DEF Prepared
      <4> QED
        BY <2>1, <4>1, <4>2 DEF Made
    <3>3. \A k \in 1 .. written : disk'[WriteOrder[k]] = disk[WriteOrder[k]]
      BY <2>2, <3>1, Places DEF ArtifactsTypeOK
    <3>4. disk'[f] = Made(f)
      BY <2>2, <3>1 DEF ArtifactsTypeOK
    <3>5. \A k \in 1 .. written' : disk'[WriteOrder[k]] \in Editions
      BY <2>2, <3>1, <3>2, <3>3, <3>4 DEF Prepared
    <3>6. written' >= 5 => disk'["failure_documents"] = disk'["failure_cases"]
      <4>1. CASE written = 4
        BY <2>2, <3>1, <3>4, <4>1, Orders, NamesAre DEF Made, ArtifactsTypeOK
      <4>2. CASE written = 5
        BY <2>2, <3>1, <4>2, Orders, NamesAre DEF Prepared, ArtifactsTypeOK
      <4> QED
        BY <2>2, <3>1, <4>1, <4>2
    <3>7. ArtifactsTypeOK'
      <4>1. disk' \in [Names -> Contents]
        BY <2>2, <3>1, <3>2 DEF ArtifactsTypeOK, Contents
      <4>2. written' \in 0 .. Len(WriteOrder)
        BY <2>2, <3>1, Orders
      <4> QED
        BY <2>1, <2>2, <4>1, <4>2 DEF ArtifactsTypeOK
    <3> QED
      BY <2>1, <2>2, <3>1, <3>5, <3>6, <3>7 DEF Prepared, Verified, RefusedForCause, ArtifactsTypeOK
  <2>3. CASE /\ written = Len(WriteOrder)
             /\ manifest' = disk /\ preparing' = None /\ written' = 0 /\ UNCHANGED disk
    <3>1. \A f \in Names : disk[f] \in Editions
      BY <2>3, Orders, NamesAre DEF Prepared
    <3>2. ArtifactsTypeOK'
      <4>1. disk \in [Names -> Editions \cup {None}]
        BY <3>1 DEF ArtifactsTypeOK
      <4>2. 0 \in 0 .. Len(WriteOrder)
        BY Orders
      <4> QED
        BY <2>1, <2>3, <4>1, <4>2 DEF ArtifactsTypeOK
    <3> QED
      BY <2>1, <2>3, <3>2, Orders DEF Prepared, Verified, RefusedForCause
  <2> QED
    BY <1>4, <2>2, <2>3 DEF EndWrite
<1> QED
  BY <1>1, <1>2, <1>3, <1>4
-----------------------------------------------------------------------------
\* A process that does not run knows nothing.
LEMMA Blank ==
    /\ NoManifest \in [Names -> Editions \cup {None}]
    /\ NoManifest["failure_documents"] = NoManifest["failure_cases"]
    /\ [f \in Names |-> None] \in [Names -> Contents]
    /\ 0 \in 0 .. Len(ReadOrder) - 1 /\ 0 \in 0 .. Len(WriteOrder)
BY NamesAre, Orders DEF NoManifest, Contents

\* A file that is not the manifest's, or one its reader does not accept, is a cause.
LEMMA RefusalHasCause ==
    ASSUME IInv, Refuse, UNCHANGED <<preparation, quiet>>,
           quiet => \/ manifest = NoManifest
                    \/ \E f \in Names : disk[f] # manifest[f] \/ <<disk[f], f>> \in Rejected
    PROVE  IInv'
<1> USE DEF IInv, Refuse, preparation
<1>1. ArtifactsTypeOK'
  BY Blank DEF ArtifactsTypeOK
<1>2. Prepared'
  BY Blank DEF Prepared
<1>3. Verified' /\ RefusedForCause'
  BY DEF Verified, RefusedForCause
<1> QED
  BY <1>1, <1>2, <1>3

\* The next step of a pass over the six files.
LEMMA AdvanceEffect ==
    ASSUME IInv, NEW order, Len(order) = 6, NEW stage, Advance(order, stage)
    PROVE  \/ next \in 0 .. 4 /\ next' = next + 1 /\ loader' = loader
           \/ next = 5 /\ next' = 0 /\ loader' = stage
BY Orders DEF IInv, ArtifactsTypeOK, Advance

LEMMA ReadManifestStep ==
    ASSUME IInv, ReadManifest
    PROVE  IInv'
<1> USE DEF IInv
<1>1. quiet' = TRUE /\ UNCHANGED preparation /\ loader = "down"
  BY DEF ReadManifest
<1>2. CASE manifest = NoManifest /\ Refuse
  <2>1. ArtifactsTypeOK'
    BY <1>1, <1>2, Blank DEF ArtifactsTypeOK, Refuse, preparation
  <2> QED
    BY <1>1, <1>2, <2>1, Blank DEF Prepared, Verified, RefusedForCause, Refuse, preparation
<1>3. CASE seen' = manifest /\ loader' = "checking" /\ next' = 0 /\ UNCHANGED loaded
  <2>1. ArtifactsTypeOK'
    BY <1>1, <1>3, Orders DEF ArtifactsTypeOK, preparation
  <2> QED
    BY <1>1, <1>3, <2>1 DEF Prepared, Verified, RefusedForCause, preparation
<1> QED
  BY <1>2, <1>3 DEF ReadManifest

LEMMA CheckFileStep ==
    ASSUME IInv, CheckFile
    PROVE  IInv'
<1> USE DEF IInv
<1> DEFINE f == CheckOrder[next + 1]
<1>1. loader = "checking" /\ UNCHANGED <<preparation, quiet>>
  BY DEF CheckFile
<1>2. next + 1 \in 1 .. 6 /\ f \in Names
  BY Orders, Places DEF ArtifactsTypeOK
<1>3. CASE Matches(f) /\ Advance(CheckOrder, "reading") /\ UNCHANGED <<seen, loaded>>
  <2>1. \/ next \in 0 .. 4 /\ next' = next + 1 /\ loader' = "checking"
        \/ next = 5 /\ next' = 0 /\ loader' = "reading"
    BY <1>1, <1>3, AdvanceEffect, Orders
  <2>2. ArtifactsTypeOK' /\ Prepared'
    BY <1>1, <1>3, <2>1, Orders DEF ArtifactsTypeOK, Prepared, preparation
  <2>3. quiet => \A k \in 1 .. next + 1 : Matches(CheckOrder[k])
    BY <1>1, <1>2, <1>3 DEF Verified, ArtifactsTypeOK
  <2>4. \A g \in Names : Matches(g)' <=> Matches(g)
    BY <1>1, <1>3 DEF Matches, preparation
  <2>5. CASE next \in 0 .. 4 /\ next' = next + 1 /\ loader' = "checking"
    <3>1. \A k \in 1 .. next' : CheckOrder[k] \in Names
      BY <2>5, Places
    <3>2. quiet => \A k \in 1 .. next' : Matches(CheckOrder[k])'
      BY <2>3, <2>4, <2>5, <3>1
    <3> QED
      BY <1>1, <1>3, <2>2, <2>5, <3>2 DEF Verified, RefusedForCause, preparation
  <2>6. CASE next = 5 /\ next' = 0 /\ loader' = "reading"
    <3>1. quiet => \A g \in Names : Matches(g)'
      BY <2>3, <2>4, <2>6, Places
    <3> QED
      BY <1>1, <1>3, <2>2, <2>6, <3>1 DEF Verified, RefusedForCause, preparation
  <2> QED
    BY <2>1, <2>5, <2>6
<1>4. CASE disk[f] # seen[f] /\ Refuse
  BY <1>1, <1>2, <1>4, RefusalHasCause DEF Verified
<1> QED
  BY <1>3, <1>4 DEF CheckFile

LEMMA ReadFileStep ==
    ASSUME IInv, ReadFile
    PROVE  IInv'
<1> USE DEF IInv
<1> DEFINE f == ReadOrder[next + 1]
<1>1. loader = "reading" /\ UNCHANGED <<preparation, quiet>>
  BY DEF ReadFile
<1>2. next + 1 \in 1 .. 6 /\ f \in Names
  BY Orders, Places DEF ArtifactsTypeOK
<1>3. CASE /\ loaded' = IF f \in Mapped THEN loaded ELSE [loaded EXCEPT ![f] = disk[f]]
           /\ Advance(ReadOrder, "aligning")
           /\ UNCHANGED seen
  <2>1. \/ next \in 0 .. 4 /\ next' = next + 1 /\ loader' = "reading"
        \/ next = 5 /\ next' = 0 /\ loader' = "aligning"
    BY <1>1, <1>3, AdvanceEffect, Orders
  <2>2. loaded' \in [Names -> Contents]
    BY <1>2, <1>3 DEF ArtifactsTypeOK
  <2>3. ArtifactsTypeOK' /\ Prepared'
    BY <1>1, <1>3, <2>1, <2>2, Orders DEF ArtifactsTypeOK, Prepared, preparation
  <2>4. \A g \in Names : Matches(g)' <=> Matches(g)
    BY <1>1, <1>3 DEF Matches, preparation
  <2>5. \A g \in Names : loaded'[g] = IF g = f /\ f \notin Mapped THEN disk[g] ELSE loaded[g]
    BY <1>2, <1>3 DEF ArtifactsTypeOK
  <2>6. quiet => \A k \in 1 .. next + 1 :
           ReadOrder[k] \notin Mapped => loaded'[ReadOrder[k]] = disk[ReadOrder[k]]
    <3> SUFFICES ASSUME quiet, NEW k \in 1 .. next + 1, ReadOrder[k] \notin Mapped
                 PROVE  loaded'[ReadOrder[k]] = disk[ReadOrder[k]]
      OBVIOUS
    <3>1. k \in 1 .. 6 /\ ReadOrder[k] \in Names
      BY <1>2, Places DEF ArtifactsTypeOK
    <3>2. CASE ReadOrder[k] = f
      BY <2>5, <3>1, <3>2
    <3>3. CASE ReadOrder[k] # f
      <4>1. k \in 1 .. next
        BY <3>3 DEF ArtifactsTypeOK
      <4> QED
        BY <1>1, <2>5, <3>1, <3>3, <4>1 DEF Verified
    <3> QED
      BY <3>2, <3>3
  <2>7. CASE next \in 0 .. 4 /\ next' = next + 1 /\ loader' = "reading"
    BY <1>1, <1>3, <2>3, <2>4, <2>6, <2>7 DEF Verified, RefusedForCause, preparation
  <2>8. CASE next = 5 /\ next' = 0 /\ loader' = "aligning"
    <3>1. quiet => \A g \in Names \ Mapped : loaded'[g] = disk[g]
      BY <2>6, <2>8, Places
    <3> QED
      BY <1>1, <1>3, <2>3, <2>4, <2>8, <3>1 DEF Verified, RefusedForCause, preparation
  <2> QED
    BY <2>1, <2>7, <2>8
<1>4. CASE (disk[f] # seen[f] \/ <<disk[f], f>> \in Rejected) /\ Refuse
  BY <1>1, <1>2, <1>4, RefusalHasCause DEF Verified
<1> QED
  BY <1>3, <1>4 DEF ReadFile

LEMMA AlignStep ==
    ASSUME IInv, Align
    PROVE  IInv'
<1> USE DEF IInv
<1>1. loader = "aligning" /\ UNCHANGED <<preparation, quiet>>
  BY DEF Align
<1>2. CASE Aligned /\ loader' = "ready" /\ UNCHANGED <<next, seen, loaded>>
  <2>1. ArtifactsTypeOK' /\ Prepared'
    BY <1>1, <1>2 DEF ArtifactsTypeOK, Prepared, preparation
  <2>2. Aligned' /\ \A g \in Names : Matches(g)' <=> Matches(g)
    BY <1>1, <1>2 DEF Aligned, Matches, preparation
  <2> QED
    BY <1>1, <1>2, <2>1, <2>2 DEF Verified, RefusedForCause, preparation
<1>3. CASE ~Aligned /\ Refuse
  <2>1. {"failure_documents", "failure_cases"} \subseteq Names \ Mapped
    BY NamesAre DEF Mapped
  <2>2. quiet => \E f \in Names : disk[f] # manifest[f]
    BY <1>1, <1>3, <2>1 DEF Aligned, Verified, Prepared
  <2> QED
    BY <1>1, <1>3, <2>2, RefusalHasCause
<1> QED
  BY <1>2, <1>3 DEF Align

LEMMA StopStep ==
    ASSUME IInv, Stop
    PROVE  IInv'
<1> USE DEF IInv
<1>1. /\ loader' = "down" /\ next' = 0 /\ seen' = NoManifest
      /\ loaded' = [f \in Names |-> None] /\ quiet' = FALSE
      /\ UNCHANGED <<disk, manifest, preparing, written, open>>
  BY DEF Stop, preparation
<1>2. ArtifactsTypeOK'
  BY <1>1, Blank DEF ArtifactsTypeOK
<1> QED
  BY <1>1, <1>2, Blank DEF Prepared, Verified, RefusedForCause

LEMMA Invariance == ArtifactsSpec => []IInv
<1>1. ASSUME ArtifactsInit PROVE IInv
  <2>1. ArtifactsTypeOK
    BY <1>1, Blank DEF ArtifactsInit, ArtifactsTypeOK
  <2> QED
    BY <1>1, <2>1, Blank DEF ArtifactsInit, IInv, Prepared, Verified, RefusedForCause
<1>2. IInv /\ [ArtifactsNext]_artifactsVars => IInv'
  <2>1. ASSUME IInv, ArtifactsNext PROVE IInv'
    BY <2>1, PreparationStep, ReadManifestStep, CheckFileStep, ReadFileStep, AlignStep,
       StopStep DEF ArtifactsNext
  <2>2. ASSUME IInv, UNCHANGED artifactsVars PROVE IInv'
    <3>1. UNCHANGED <<disk, manifest, preparing, written, open, process, quiet>>
      BY <2>2 DEF artifactsVars, preparation
    <3>2. ArtifactsTypeOK' /\ Prepared'
      BY <2>2, <3>1 DEF process, IInv, ArtifactsTypeOK, Prepared
    <3> QED
      BY <2>2, <3>1, <3>2, UndisturbedStep DEF IInv
  <2> QED
    BY <2>1, <2>2
<1> QED
  BY <1>1, <1>2, PTL DEF ArtifactsSpec
-----------------------------------------------------------------------------
\* Every state of the two programs is well typed; a manifest never names a torn file.
THEOREM TypeCorrect == ArtifactsSpec => []ArtifactsTypeOK
<1>1. IInv => ArtifactsTypeOK
  BY DEF IInv
<1> QED
  BY <1>1, Invariance, PTL

\* Only a change that the samples miss, in both of two files that are compared, is served.
THEOREM StaleIsUnsampled == ArtifactsSpec => []StaleOnlyIfUnsampled
<1>1. ASSUME IInv PROVE StaleOnlyIfUnsampled
  <2> SUFFICES ASSUME loader = "ready", quiet, NEW f \in Names, Served(f) # seen[f]
               PROVE  /\ f \notin Sampled
                      /\ f \in {"failure_documents", "failure_cases"} =>
                            {"failure_documents", "failure_cases"} \cap Sampled = {}
    BY DEF StaleOnlyIfUnsampled
  <2>1. \A g \in Names : Served(g) = disk[g] /\ (g \in Sampled => disk[g] = seen[g])
    BY <1>1 DEF IInv, Verified, Served, Matches
  <2>2. /\ seen["failure_documents"] = seen["failure_cases"]
        /\ disk["failure_documents"] = disk["failure_cases"]
    <3>1. {"failure_documents", "failure_cases"} \subseteq Names \ Mapped
      BY NamesAre DEF Mapped
    <3> QED
      BY <1>1, <3>1 DEF IInv, Verified, Prepared, Aligned
  <2> QED
    BY <2>1, <2>2, NamesAre
<1> QED
  BY <1>1, Invariance, PTL

\* No start is refused without a cause: a damaged file, or contents no reader accepts.
THEOREM RefusalsHaveACause == ArtifactsSpec => []RefusedForCause
<1>1. IInv => RefusedForCause
  BY DEF IInv
<1> QED
  BY <1>1, Invariance, PTL
=============================================================================
