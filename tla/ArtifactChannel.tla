--------------------------- MODULE ArtifactChannel ---------------------------
(***************************************************************************)
(* One artifact of a call: its record on the platform (platform-api,       *)
(* server.js) and its bytes in the artifact store (packages/artifact-      *)
(* store, the filesystem backend).  Requests may overlap: an upload awaits *)
(* its body, the store's write and rename, and the save, a commit its body *)
(* with the checksum, which it compares afterwards.  The process may       *)
(* crash at each await; the record is then the last one saved and the      *)
(* bytes are the last ones renamed.                                        *)
(*                                                                         *)
(* Patient chooses the sender: a patient one has one request out at a time *)
(* and commits only what its last upload was answered for.                 *)
(***************************************************************************)
EXTENDS Naturals, FiniteSets

CONSTANTS
    Contents,       \* bodies an upload may have; a content is its checksum too
    Uploads,        \* uploads and commits under way at once
    Patient,        \* does the sender wait for each answer
    NoBytes

ASSUME ArtifactAssumption == NoBytes \notin Contents /\ Patient \in BOOLEAN

VARIABLES
    record,         \* the artifact record in memory
    kept,           \* the same in the last snapshot
    bytes,          \* the file of the artifact
    upload,         \* upload[u]: a PUT or a commit under way
    acked,          \* the content the sender was last answered for, else NoBytes
    expired         \* is the upload grant's time up

artifactVars == <<record, kept, bytes, upload, acked, expired>>

Known == Contents \cup {NoBytes}
NoArtifact == [lifecycle |-> "absent", observed |-> NoBytes, checksum |-> NoBytes]
ArtifactRecord == [lifecycle : {"absent", "allocated", "committed"},
                   observed : Known, checksum : Known]
Free == [at |-> "free", content |-> NoBytes]
Put == [at : {"free", "receiving", "renamed", "saving", "committing"}, content : Known]

ArtifactTypeOK ==
    /\ record \in ArtifactRecord /\ kept \in ArtifactRecord
    /\ bytes \in Known /\ acked \in Known
    /\ upload \in [Uploads -> Put]
    /\ expired \in BOOLEAN

-----------------------------------------------------------------------------
Move(u, at) == upload' = [upload EXCEPT ![u].at = at]

(* The platform serves the record; a request that waits may save it.       *)
Keep == kept' = record'

(* POST /v1/requests/:id/artifacts: a record and an upload grant. *)
Allocate ==
    /\ record = NoArtifact
    /\ record' = [NoArtifact EXCEPT !.lifecycle = "allocated"]
    /\ Keep
    /\ UNCHANGED <<bytes, upload, acked, expired>>

(* resolveArtifactGrant, of the one upload grant the artifact was given. *)
Granted == record.lifecycle # "absent" /\ ~expired

GrantExpires ==
    /\ record.lifecycle # "absent"
    /\ expired' = TRUE
    /\ UNCHANGED <<record, kept, bytes, upload, acked>>

(* PUT content: the grant and the lifecycle are checked, then the handler  *)
(* awaits the body.                                                        *)
BeginUpload(u, c) ==
    /\ upload[u] = Free
    /\ Granted /\ record.lifecycle = "allocated"
    /\ Patient => \A v \in Uploads : upload[v] = Free
    /\ upload' = [upload EXCEPT ![u] = [at |-> "receiving", content |-> c]]
    /\ acked' = NoBytes
    /\ UNCHANGED <<record, kept, bytes, expired>>

(* The body breaks off, is too large or, of a commit, is not the checksum  *)
(* of what is stored: nothing changes.                                     *)
RefuseBody(u) ==
    /\ upload[u].at \in {"receiving", "committing"}
    /\ upload' = [upload EXCEPT ![u] = Free]
    /\ UNCHANGED <<record, kept, bytes, acked, expired>>

(* The store has written the bytes beside the file and renamed them.       *)
StoreBytes(u) ==
    /\ upload[u].at = "receiving"
    /\ bytes' = upload[u].content
    /\ Move(u, "renamed")
    /\ UNCHANGED <<record, kept, acked, expired>>

(* Mutant: what is observed is the file as announced, before it is stored. *)
Observe_Early(u) ==
    /\ upload[u].at = "receiving"
    /\ record' = [record EXCEPT !.observed = upload[u].content]
    /\ Move(u, "saving")
    /\ UNCHANGED <<kept, bytes, acked, expired>>

(* The handler goes on and notes what its own upload held. *)
Observe(u) ==
    /\ upload[u].at = "renamed"
    /\ record' = [record EXCEPT !.observed = upload[u].content]
    /\ Move(u, "saving")
    /\ UNCHANGED <<kept, bytes, acked, expired>>

(* The record is saved and the upload answered. *)
FinishUpload(u) ==
    /\ upload[u].at = "saving"
    /\ upload' = [upload EXCEPT ![u] = Free]
    /\ acked' = upload[u].content
    /\ UNCHANGED <<record, bytes, expired>>
    /\ Keep

(* POST commit: the grant and the record are checked, then the handler     *)
(* awaits the checksum the sender claims.  The lifecycle is not asked, so  *)
(* a committed artifact may be committed again.                            *)
BeginCommit(u, c) ==
    /\ upload[u] = Free
    /\ Granted /\ record.observed # NoBytes
    /\ Patient => acked = c /\ \A v \in Uploads : upload[v] = Free
    /\ upload' = [upload EXCEPT ![u] = [at |-> "committing", content |-> c]]
    /\ UNCHANGED <<record, kept, bytes, acked, expired>>

(* The claim is compared with what is observed by now; nothing else is     *)
(* asked again.                                                            *)
Commit(u) ==
    /\ upload[u].at = "committing" /\ record.observed = upload[u].content
    /\ record' = [record EXCEPT !.lifecycle = "committed", !.checksum = upload[u].content]
    /\ upload' = [upload EXCEPT ![u] = Free]
    /\ UNCHANGED <<kept, bytes, acked, expired>>

(* The save of the commit, or of any other handler. *)
SaveArtifact ==
    /\ kept' = record
    /\ UNCHANGED <<record, bytes, upload, acked, expired>>

(* The process crashes and starts again; the sender gets no answer. *)
Crash ==
    /\ record' = kept
    /\ upload' = [u \in Uploads |-> Free]
    /\ UNCHANGED <<kept, bytes, acked, expired>>

ArtifactInit ==
    /\ record = NoArtifact /\ kept = NoArtifact /\ bytes = NoBytes
    /\ upload = [u \in Uploads |-> Free]
    /\ acked = NoBytes /\ expired = FALSE

ArtifactNext ==
    \/ Allocate \/ GrantExpires \/ SaveArtifact \/ Crash
    \/ \E u \in Uploads :
         \/ \E c \in Contents : BeginUpload(u, c) \/ BeginCommit(u, c)
         \/ StoreBytes(u) \/ Observe(u) \/ FinishUpload(u) \/ Commit(u) \/ RefuseBody(u)

ArtifactSpec == ArtifactInit /\ [][ArtifactNext]_artifactVars

-----------------------------------------------------------------------------
(* The bytes a download serves are those of the committed checksum it      *)
(* names beside them.  For a patient sender this holds through every crash *)
(* and through uploads begun, broken off and begun anew.  The comments     *)
(* that committed bytes are immutable (server.js:4356) and that a mismatch *)
(* never becomes a delivered artifact (server.js:4419) say it of any       *)
(* sender, and overlapping uploads break it.                               *)
ServedAsCommitted == record.lifecycle = "committed" => bytes = record.checksum
=============================================================================
