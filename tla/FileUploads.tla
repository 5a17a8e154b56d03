----------------------------- MODULE FileUploads --------------------------------
(***************************************************************************)
(* upload-file, update-file and their from-url forms: where the bytes come  *)
(* from, how they reach the wiki, and the image facts attached afterwards.  *)
(* The bytes of a URL are fetched by OutboundRequests; what this server     *)
(* cannot reach is left to the wiki to fetch.                               *)
(***************************************************************************)
EXTENDS OutboundRequests, FiniteSets

CONSTANTS
    MaxAttempts,  \* bound: how often the API client sends an upload
    MaxOthers     \* bound: versions other users upload

ASSUME UploadAssumption == MaxAttempts \in Nat \ {0} /\ MaxOthers \in Nat

Tool == {"upload-file", "update-file", "facts-only", "upload-file-from-url", "update-file-from-url"}
FromUrl == {"upload-file-from-url", "update-file-from-url"}
Creates == {"upload-file", "upload-file-from-url"}

VARIABLES
    file,     \* the versions of the file on the wiki: what each holds
    facts,    \* the image facts on the wiki
    tool,     \* the call, or "none"
    given,    \* the call gives image facts
    stage,    \* what it does next
    attempts, \* of the upload being sent
    answer,   \* [ok, uploaded]: success, and whether it says that the file was uploaded
    ours      \* history: the call knows that it uploaded the file

upVars == <<file, facts, tool, given, stage, attempts, answer, ours>>
vars == <<outVars, upVars>>

-----------------------------------------------------------------------------
NoAnswer == [ok |-> FALSE, uploaded |-> FALSE]
Answered(ok, uploaded) == stage' = "done" /\ answer' = [ok |-> ok, uploaded |-> uploaded]
Failed == Answered(FALSE, FALSE)

Begin(t, g) ==
    /\ tool = "none" /\ kind = "none"
    /\ tool' = t /\ given' = g /\ stage' = IF t \in FromUrl \cup {"facts-only"} THEN "exists" ELSE "path"
    /\ UNCHANGED <<outVars, file, facts, attempts, answer, ours>>

(* UploadDirs.resolve: no directory is configured, or the path is relative,  *)
(* missing, or outside once its links are resolved.                         *)
ResolvePath(inside) ==
    /\ stage = "path"
    /\ IF inside THEN stage' = "exists" /\ UNCHANGED answer ELSE Failed
    /\ UNCHANGED <<outVars, file, facts, tool, given, attempts, ours>>

(* fileExists, assertFileExists: a new file must not exist, an updated one   *)
(* must.                                                                     *)
CheckExists ==
    /\ stage = "exists"
    /\ IF (file = <<>>) # (tool \in Creates) \/ (tool = "facts-only" /\ ~given) THEN Failed
       ELSE /\ stage' = CASE tool = "facts-only" -> "facts" [] tool \in FromUrl -> "fetch" [] OTHER -> "send"
            /\ UNCHANGED answer
    /\ UNCHANGED <<outVars, file, facts, tool, given, attempts, ours>>

(* uploadFromUrl: the bytes are fetched by this server first. *)
Fetch ==
    /\ stage = "fetch" /\ kind = "none"
    /\ \E origin \in Origin : Ask("file", origin, FALSE)
    /\ UNCHANGED upVars

(* shouldRescueToWiki *)
Rescues == {"unreachable", "blocked", "tooLarge", "aborted"}

Fetched ==
    /\ stage = "fetch" /\ pc = "done" /\ kind = "file"
    /\ IF outcome = "ok" THEN stage' = "send" /\ UNCHANGED answer
       ELSE IF outcome \in Rescues THEN stage' = "byUrl" /\ UNCHANGED answer
       ELSE Failed
    /\ UNCHANGED <<outVars, file, facts, tool, given, attempts, ours>>

(* fileAt: each attempt reads the file afresh; fetched bytes are in memory.  *)
Content == "whole"

(* After a successful upload the facts are attached, if there are any. *)
Landed ==
    /\ ours' = TRUE
    /\ IF given THEN stage' = "facts" /\ UNCHANGED answer ELSE Answered(TRUE, TRUE)

(* submitUpload, submitUploadFromBytes: multipart, sent again by the client  *)
(* when no response comes; the wiki's warnings are ignored.                  *)
SendUpload(fate) ==
    /\ stage = "send"
    /\ attempts' = attempts + 1
    /\ file' = IF fate \in {"stored", "storedUnanswered"} THEN Append(file, Content) ELSE file
    /\ CASE fate = "stored" -> Landed
         [] fate = "refused" -> Failed /\ UNCHANGED ours
         [] OTHER -> IF attempts' < MaxAttempts THEN UNCHANGED <<stage, answer, ours>>
                     ELSE Failed /\ UNCHANGED ours
    /\ UNCHANGED <<outVars, facts, tool, given>>

(* action=upload with url: the wiki fetches the file, or may not. *)
UploadByUrl(stored) ==
    /\ stage = "byUrl"
    /\ IF stored THEN file' = Append(file, "whole") /\ Landed
       ELSE Failed /\ UNCHANGED <<file, ours>>
    /\ UNCHANGED <<outVars, facts, tool, given, attempts>>

(* Mutant of FactsFailure: the default of the last parameter is taken. *)
FactsFailureDefault == TRUE

(* wrapImageFactsFailure: the error says whether the file was uploaded. *)
FactsFailure == tool # "facts-only"

(* attachImageFacts: written; not known to this wiki (a warning); or failed. *)
AttachFacts(fate) ==
    /\ stage = "facts"
    /\ facts' = (facts \/ fate = "written")
    /\ IF fate = "failed" THEN Answered(FALSE, FactsFailure)
       ELSE Answered(TRUE, tool # "facts-only")
    /\ UNCHANGED <<outVars, file, tool, given, attempts, ours>>

(* Others upload the file too. *)
Others ==
    /\ Cardinality({i \in 1 .. Len(file) : file[i] = "theirs"}) < MaxOthers
    /\ tool # "none" /\ stage # "done"
    /\ file' = Append(file, "theirs")
    /\ UNCHANGED <<outVars, facts, tool, given, stage, attempts, answer, ours>>

-----------------------------------------------------------------------------
Init ==
    /\ OutInit
    /\ file \in {<<>>, <<"theirs">>} /\ facts = FALSE
    /\ tool = "none" /\ given = FALSE /\ stage = "idle" /\ attempts = 0
    /\ answer = NoAnswer /\ ours = FALSE

Upload ==
    \/ \E t \in Tool, g \in BOOLEAN : Begin(t, g)
    \/ \E inside \in BOOLEAN : ResolvePath(inside)
    \/ CheckExists \/ Fetch \/ Fetched
    \/ \E fate \in {"stored", "storedUnanswered", "lost", "refused"} : SendUpload(fate)
    \/ \E stored \in BOOLEAN : UploadByUrl(stored)
    \/ \E fate \in {"written", "unknown", "failed"} : AttachFacts(fate)
    \/ Others

Next ==
    \/ Upload
    \/ /\ Hop \/ (tool = "none" /\ \E k \in Kind \ {"file"}, o \in Origin, creds \in BOOLEAN : Ask(k, o, creds))
       /\ UNCHANGED upVars

Spec == Init /\ [][Next]_vars /\ OutFairness

-----------------------------------------------------------------------------
(* Properties *)

TypeOK ==
    /\ OutTypeOK
    /\ tool \in Tool \cup {"none"} /\ attempts \in 0 .. MaxAttempts
    /\ answer \in [ok: BOOLEAN, uploaded: BOOLEAN]

(* An answer says that the file was uploaded exactly when the call knows it  *)
(* was: also when the facts fail afterwards, and not when only facts were    *)
(* written.  What it does not know of is an upload whose answer was lost.    *)
UploadIsReported == stage = "done" => answer.uploaded = ours

===============================================================================
