------------------------------- MODULE Artifacts -------------------------------
(***************************************************************************)
(* The data artifacts: prepare_data writes them into a directory, one file *)
(* after the other and the manifest last, and a starting API process       *)
(* checks every file against the manifest, then reads them in a second     *)
(* pass.  Nothing keeps the two programs apart, and a preparation may stop *)
(* anywhere.                                                               *)
(*                                                                         *)
(* A file is known by the edition of the sources it was made from.  The    *)
(* loader compares sizes and three samples of 4096 bytes, so a change      *)
(* elsewhere in a file may escape it.  The three IDX files are one         *)
(* artifact here: they are treated alike.                                  *)
(***************************************************************************)
EXTENDS Integers, Sequences

CONSTANTS
    Editions,  \* the editions of the sources that may be prepared
    Sampled,   \* the artifacts whose editions differ in size or in the samples
    Rejected   \* the artifacts of an edition, <<e, f>>, that their reader does not accept

\* The order in which main writes them.
WriteOrder == <<"company_metadata", "company_embeddings", "failure_cases", "benchmarks",
                "failure_documents", "failure_embeddings">>
\* The orders in which load_data_artifacts checks and reads them.
CheckOrder == <<"company_metadata", "company_embeddings", "failure_documents",
                "failure_embeddings", "failure_cases", "benchmarks">>
ReadOrder == <<"company_metadata", "company_embeddings", "failure_documents",
               "failure_cases", "failure_embeddings", "benchmarks">>
Names == {WriteOrder[i] : i \in DOMAIN WriteOrder}
\* np.load reads the header of the embeddings and maps the rest into memory.
Mapped == {"company_embeddings", "failure_embeddings"}

\* main checks the embeddings as their reader does, and no more of the other files than the
\* ids of the companies and that a case has a text: a missing column or field, an empty
\* company or an invalid number is found by the reader only.
ASSUME ArtifactsAssumption ==
    /\ Editions \subseteq Nat \ {0}
    /\ Sampled \subseteq Names
    /\ Rejected \subseteq Editions \X (Names \ Mapped)

VARIABLES
    disk,      \* the edition of each file
    manifest,  \* the edition the manifest gives for each file
    preparing, \* the edition the running preparation reads, None if none runs
    written,   \* how many files it has finished
    open,      \* it is inside a file
    loader,    \* the API process
    next,      \* how many files it has checked, then read
    seen,      \* the manifest it has read
    loaded,    \* the editions of the files it has read
    quiet      \* nothing was written since it read the manifest

preparation == <<disk, manifest, preparing, written, open>>
process == <<loader, next, seen, loaded>>
artifactsVars == <<preparation, process, quiet>>

None == 0
Torn == -1
Contents == Editions \cup {None, Torn}
NoManifest == [f \in Names |-> None]

\* Of a mapped file the process sees what is on the disk.
Served(f) == IF f \in Mapped THEN disk[f] ELSE loaded[f]

ArtifactsInit ==
    /\ disk = [f \in Names |-> None]
    /\ manifest = NoManifest
    /\ preparing = None /\ written = 0 /\ open = FALSE
    /\ loader = "down" /\ next = 0
    /\ seen = NoManifest /\ loaded = [f \in Names |-> None]
    /\ quiet = FALSE
-----------------------------------------------------------------------------
Prepare(e) ==
    /\ preparing = None
    /\ preparing' = e
    /\ UNCHANGED <<disk, manifest, written, open, process, quiet>>

\* Opening a file for writing truncates it.
BeginWrite ==
    /\ preparing # None /\ ~open
    /\ open' = TRUE
    /\ quiet' = FALSE
    /\ \/ /\ written < Len(WriteOrder)
          /\ disk' = [disk EXCEPT ![WriteOrder[written + 1]] = Torn]
          /\ UNCHANGED manifest
       \/ /\ written = Len(WriteOrder)
          /\ manifest' = NoManifest
          /\ UNCHANGED disk
    /\ UNCHANGED <<preparing, written, process>>

\* Documents and failure embeddings are made from the copy of the cases.
Made(f) ==
    IF f \in {"failure_documents", "failure_embeddings"} THEN disk["failure_cases"]
    ELSE preparing

\* The entries of the manifest are computed from the files as they are then.
EndWrite ==
    /\ open
    /\ open' = FALSE
    /\ quiet' = FALSE
    /\ \/ /\ written < Len(WriteOrder)
          /\ LET f == WriteOrder[written + 1] IN disk' = [disk EXCEPT ![f] = Made(f)]
          /\ written' = written + 1
          /\ UNCHANGED <<manifest, preparing>>
       \/ /\ written = Len(WriteOrder)
          /\ manifest' = disk
          /\ preparing' = None
          /\ written' = 0
          /\ UNCHANGED disk
    /\ UNCHANGED process

\* A validation of main fails, or the program is killed.
Interrupt ==
    /\ preparing # None
    /\ preparing' = None
    /\ written' = 0
    /\ open' = FALSE
    /\ UNCHANGED <<disk, manifest, process, quiet>>
-----------------------------------------------------------------------------
\* An exception leaves load_data_artifacts with nothing loaded.
Refuse ==
    /\ loader' = "refused"
    /\ next' = 0
    /\ seen' = NoManifest
    /\ loaded' = [f \in Names |-> None]

ReadManifest ==
    /\ loader = "down"
    /\ quiet' = TRUE
    /\ \/ manifest = NoManifest /\ Refuse
       \/ /\ manifest # NoManifest
          /\ seen' = manifest
          /\ loader' = "checking"
          /\ next' = 0
          /\ UNCHANGED loaded
    /\ UNCHANGED preparation

\* The next file of a pass, or the stage after it.
Advance(order, stage) ==
    /\ next' = (next + 1) % Len(order)
    /\ loader' = IF next + 1 = Len(order) THEN stage ELSE loader

\* Slip: only the existence of the file is checked.
Exists(f) == disk[f] # None

\* _artifact_path may accept file f: it has the size and the samples of the manifest.
Matches(f) ==
    /\ disk[f] \notin {None, Torn}
    /\ f \in Sampled => disk[f] = seen[f]

\* A file that is the manifest's is accepted, one of another edition may be.
CheckFile ==
    /\ loader = "checking"
    /\ LET f == CheckOrder[next + 1] IN
       \/ /\ Matches(f)
          /\ Advance(CheckOrder, "reading")
          /\ UNCHANGED <<seen, loaded>>
       \/ disk[f] # seen[f] /\ Refuse
    /\ UNCHANGED <<preparation, quiet>>

\* A truncated CSV file may still parse.  A reader refuses contents it does not accept, be
\* they the manifest's or not.  Numbers of rows, and the ids of the companies, are compared
\* with the manifest: this may, but need not, expose another edition.
ReadFile ==
    /\ loader = "reading"
    /\ LET f == ReadOrder[next + 1] IN
       \/ /\ disk[f] # None
          /\ disk[f] = Torn => f \in {"company_metadata", "benchmarks"}
          /\ <<disk[f], f>> \notin Rejected
          /\ loaded' = IF f \in Mapped THEN loaded ELSE [loaded EXCEPT ![f] = disk[f]]
          /\ Advance(ReadOrder, "aligning")
          /\ UNCHANGED seen
       \/ (disk[f] # seen[f] \/ <<disk[f], f>> \in Rejected) /\ Refuse
    /\ UNCHANGED <<preparation, quiet>>

\* Slip: a document is compared with its case as a whole, which lacks the retrieval text.
AlignedAsWhole == FALSE

\* The texts of documents and cases are compared one by one.
Aligned == loaded["failure_documents"] = loaded["failure_cases"]

Align ==
    /\ loader = "aligning"
    /\ \/ Aligned /\ loader' = "ready" /\ UNCHANGED <<next, seen, loaded>>
       \/ ~Aligned /\ Refuse
    /\ UNCHANGED <<preparation, quiet>>

\* The process ends, at any time; whoever starts it again reads everything again.
Stop ==
    /\ loader # "down"
    /\ loader' = "down"
    /\ next' = 0
    /\ seen' = NoManifest
    /\ loaded' = [f \in Names |-> None]
    /\ quiet' = FALSE
    /\ UNCHANGED preparation

ArtifactsNext ==
    \/ \E e \in Editions : Prepare(e)
    \/ BeginWrite \/ EndWrite \/ Interrupt
    \/ ReadManifest \/ CheckFile \/ ReadFile \/ Align \/ Stop

ArtifactsSpec == ArtifactsInit /\ [][ArtifactsNext]_artifactsVars
-----------------------------------------------------------------------------
\* The values the state can take.
ArtifactsTypeOK ==
    /\ disk \in [Names -> Contents] /\ manifest \in [Names -> Editions \cup {None}]
    /\ preparing \in Editions \cup {None}
    /\ written \in 0 .. Len(WriteOrder) /\ open \in BOOLEAN
    /\ loader \in {"down", "checking", "reading", "aligning", "ready", "refused"}
    /\ next \in 0 .. Len(ReadOrder) - 1
    /\ seen \in [Names -> Editions \cup {None}] /\ loaded \in [Names -> Contents]
    /\ quiet \in BOOLEAN

\* Wherever earlier preparations have stopped, a process that no preparation disturbs serves
\* every artifact in the edition its manifest names, but for those whose change the samples
\* miss; and the texts of the failures are of that edition unless the samples miss both the
\* documents and the cases they are compared with.
StaleOnlyIfUnsampled ==
    loader = "ready" /\ quiet =>
        \A f \in Names : Served(f) # seen[f] =>
            /\ f \notin Sampled
            /\ f \in {"failure_documents", "failure_cases"} =>
                  {"failure_documents", "failure_cases"} \cap Sampled = {}

\* A start that no preparation disturbs is refused for a cause: there is no manifest, a file
\* is not the one the manifest describes, or a reader does not accept what a preparation has
\* put into a file.  So after a preparation that came to its end, with contents the readers
\* accept, no start is refused until the next one begins.
RefusedForCause ==
    loader = "refused" /\ quiet =>
        \/ manifest = NoManifest
        \/ \E f \in Names : disk[f] # manifest[f]
        \/ \E f \in Names : <<disk[f], f>> \in Rejected
=============================================================================
