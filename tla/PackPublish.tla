---------------------------- MODULE PackPublish ----------------------------
(***************************************************************************)
(* tokito_mcp_pack::publish_generated_pack: copy the official catalog to a *)
(* temporary file, merge every revision of the source into it in one       *)
(* transaction, check the result, and rename it over the served pack.      *)
(*                                                                         *)
(* A file is a set of published revisions (see Materialize): the pack      *)
(* carries the version of the source it was merged from.                   *)
(***************************************************************************)
EXTENDS Naturals

CONSTANTS Revisions,  \* revision ids
          Baked,      \* generated revisions published in the official catalog
          Invalid,    \* revisions `validate_and_prepare` rejects
          Fatal       \* revisions it panics on: see SymbolText, "panic"

VARIABLES source,  \* the ingestion database, or the cache Materialize keeps
          build,   \* where the call is; "ok" and "err" are its results
          temp,    \* the <pack>.<pid>.tmp file
          pack     \* the published pack, `output`

vars == <<source, build, temp, pack>>

File == [ver : Nat, whole : BOOLEAN, rows : SUBSET Revisions]
NoFile == [ver |-> 0, whole |-> FALSE, rows |-> {}]
Exists(file) == file.ver > 0

Busy == {"copy", "merge", "verify", "promote"}

TypeOK == /\ build \in Busy \cup {"idle", "ok", "err"}
          /\ temp \in File
          /\ pack \in File

Init == /\ build = "idle"
        /\ temp = NoFile
        /\ pack = NoFile

(* What the merge of a source makes of the official catalog. *)
Merged(rows) == Baked \cup rows
Mergeable(rows) == rows \cap (Invalid \cup Fatal) = {}

-----------------------------------------------------------------------------
Return(result) == build' = result

Begin == /\ build \notin Busy
         /\ build' = IF Exists(source) THEN "copy" ELSE "err"
         /\ UNCHANGED <<temp, pack>>

CopyInPlace == /\ build = "copy"
               /\ build' = "merge"
               /\ pack' = [ver |-> 1, whole |-> FALSE, rows |-> Baked]
               /\ UNCHANGED temp
Copy == /\ build = "copy"
        /\ build' = "merge"
        /\ temp' = [ver |-> 0, whole |-> FALSE, rows |-> Baked]
        /\ UNCHANGED pack

MergeUnchecked == /\ build = "merge"
                  /\ Mergeable(source.rows)
                  /\ build' = "promote"
                  /\ temp' = [ver |-> source.ver, whole |-> FALSE, rows |-> Merged(source.rows)]
                  /\ UNCHANGED pack
MergeAnything == /\ build = "merge"
                 /\ build' = "verify"
                 /\ temp' = [ver |-> source.ver, whole |-> FALSE, rows |-> Merged(source.rows)]
                 /\ UNCHANGED pack
(* sync_from_ingestion reads the source in one statement, so it merges one *)
(* committed state of it, and the transaction commits all of it.           *)
Merge == /\ build = "merge"
         /\ Mergeable(source.rows)
         /\ build' = "verify"
         /\ temp' = [ver |-> source.ver, whole |-> FALSE, rows |-> Merged(source.rows)]
         /\ UNCHANGED pack

(* `if result.is_err() { remove_file(&temporary) }` *)
AbandonPack == /\ Return("err")
               /\ temp' = NoFile
               /\ pack' = NoFile
Abandon == /\ Return("err")
           /\ temp' = NoFile
           /\ UNCHANGED pack

RefuseMerge == /\ build = "merge"
               /\ source.rows \cap Invalid # {}
               /\ Abandon

(* A panic unwinds through the call: no result, and no cleanup either. *)
Unwind == /\ build = "merge"
          /\ source.rows \cap Fatal # {}
          /\ build' = "idle"
          /\ UNCHANGED <<temp, pack>>

(* integrity_check, VACUUM, and the trial open_read_only. *)
Verify == /\ build = "verify"
          /\ build' = "promote"
          /\ temp' = [temp EXCEPT !.whole = TRUE]
          /\ UNCHANGED pack

Promote == /\ build = "promote"
           /\ pack' = temp
           /\ temp' = NoFile
           /\ Return("ok")

(* Any step fails: no space, an I/O error, a failed check. *)
Fail == build \in Busy /\ Abandon

(* The process dies: the temporary file stays behind. *)
Crash == Return("idle") /\ UNCHANGED <<temp, pack>>

Step == Copy \/ Merge \/ RefuseMerge \/ Verify \/ Promote
=============================================================================
