---------------------------- MODULE DocumentStore ----------------------------
(***************************************************************************)
(* The directory of downloaded PDF documents and the file-system steps     *)
(* document.Downloader takes on it.  A path that is not in DOMAIN files    *)
(* does not exist; a file remembers which document it was created for and  *)
(* how much of it was written.  Directories, URLs and bytes are left out.  *)
(***************************************************************************)
EXTENDS Naturals

CONSTANTS Doc,      \* documents the details of transactions or entries name
          Path,     \* file paths below the base directory
          PathOf    \* the path the document model builder gives a document

\* Paths are built from month, parent id and title, so two documents of one
\* parent may share a path: PathOf need not be injective.
ASSUME PathOfAssumption == PathOf \in [Doc -> Path]

VARIABLE files      \* what is on disk

(***************************************************************************)
(* "partial": os.Create was done and io.Copy has not returned nil.         *)
(* "error page": the body of a reply whose HTTP status was not a success   *)
(* (the downloader never looks at the status).                             *)
(***************************************************************************)
Content == {"partial", "error page", "complete"}
FileRecord == [doc : Doc, content : Content]

FilesTypeOK == /\ DOMAIN files \subseteq Path
               /\ files \in [DOMAIN files -> FileRecord]

FilesInit == files = [p \in {} |-> p]

\* os.Stat(dest) succeeds: the document is reported as existing.
NeverExists(d) == FALSE  \* mutant: no os.Stat before the download
Exists(d) == PathOf[d] \in DOMAIN files

\* os.Create(dest): the file is there, and empty, before any byte of the body.
CreateFile(d) ==
  files' = [p \in DOMAIN files \cup {PathOf[d]} |->
              IF p = PathOf[d] THEN [doc |-> d, content |-> "partial"] ELSE files[p]]

\* io.Copy(out, resp.Body) returned nil: the file holds what the server sent.
CopyBody(d, content) ==
  files' = [files EXCEPT ![PathOf[d]] = [doc |-> d, content |-> content]]

\* The file of document d holds document d in full.
Complete(d) == /\ Exists(d)
               /\ files[PathOf[d]] = [doc |-> d, content |-> "complete"]
=============================================================================
