------------------------------ MODULE Storage -------------------------------
(***************************************************************************)
(* Uploaded files: the row of tool_storage and the file under public/,     *)
(* which nothing keeps together.  saveFile starts to write the file and    *)
(* saves the row without waiting; the deletion of rows is to unlink files. *)
(* The pages of the list are in Paging.                                    *)
(***************************************************************************)
EXTENDS Naturals, FiniteSets

CONSTANTS
    Uploads,  \* bound: the uploads there ever are
    Deletes,  \* bound: the calls of storage/delete there ever are
    Names,    \* what is before the first dot of a file name
    Exts,     \* the extensions
    Moments,  \* what YYYYMMDDHHmmSSS shows of the time: the minute and the millisecond
    Days,     \* YYYY-MM-DD
    MaxOpen,  \* how many files the process may have open
    None

StorageAssumption == MaxOpen \in Nat /\ None \notin Days /\ {} \notin {Names, Exts, Moments, Days}

VARIABLES
    upload,  \* the uploads and what becomes of them
    writing, \* saveLocalFile, which nobody awaits, by upload
    row,     \* tool_storage: the uploads that have a row
    disk,    \* the files by path: the uploads whose bytes are in it
    dirs,    \* the directories under public/upload
    open,    \* write streams, which nobody closes
    delete,  \* the calls of storage/delete
    hurt     \* remembered: uploads whose write failed or that a crash cut off

vars == <<upload, writing, row, disk, dirs, open, delete, hurt>>

\* getFileType looks the extension up as a part of a string of extensions, the
\* images first; no extension at all is a part of it.
FileType(ext) ==
    CASE ext \in {"", "png", "jpg", "m", "t"} -> "image"
      [] ext \in {"txt", "pdf", "doc"} -> "document"
      [] ext \in {"mp3", "wav"} -> "music"
      [] ext \in {"mp4", "ogg"} -> "video"
      [] OTHER -> "other"

FileRename_SameDay(name, moment, ext) == <<name, ext>>

FileRename(name, moment, ext) == <<name, moment, ext>>

FilePath(u) ==
    [day |-> u.day, type |-> FileType(u.ext), name |-> FileRename(u.name, u.moment, u.ext)]

Dir(path) == [day |-> path.day, type |-> path.type]

\* Two uploads nothing tells apart.
Alike(u, v) == <<u.name, u.ext, u.moment, u.day>> = <<v.name, v.ext, v.moment, v.day>>

Upload == [at : {"new", "buffer", "save", "saved", "refused"},
           name : Names, ext : Exts, moment : Moments, day : Days]
Fresh(u) == [at |-> "new", name |-> CHOOSE n \in Names : TRUE, ext |-> CHOOSE e \in Exts : TRUE,
             moment |-> CHOOSE t \in Moments : TRUE, day |-> CHOOSE d \in Days : TRUE]

Path(u) == FilePath(upload[u])

\* The ids of the request, the files left to unlink; remembered: the rows it
\* deleted whose file was complete.
Delete == [at : {"new", "find", "unlink"}, ids : SUBSET Uploads, files : SUBSET Uploads,
           whole : SUBSET Uploads]
NewDelete == [at |-> "new", ids |-> {}, files |-> {}, whole |-> {}]

Init ==
    /\ upload = [u \in Uploads |-> Fresh(u)]
    /\ writing = [u \in Uploads |-> "none"]
    /\ row = {}
    /\ disk = << >>
    /\ dirs = {}
    /\ open = 0
    /\ delete = [d \in Deletes |-> NewDelete]
    /\ hurt = {}

-----------------------------------------------------------------------------
\* UploadController.upload, UploadService.saveFile

\* A request that is not multipart or has no file is answered with 400.
NoFile(u) ==
    /\ upload[u].at = "new"
    /\ upload' = [upload EXCEPT ![u].at = "refused"]
    /\ UNCHANGED <<writing, row, disk, dirs, open, delete, hurt>>

\* The path is made before the file is read.
SaveFile(u, name, ext, moment, day) ==
    /\ upload[u].at = "new"
    /\ upload' = [upload EXCEPT ![u] = [at |-> "buffer", name |-> name, ext |-> ext,
                                        moment |-> moment, day |-> day]]
    /\ UNCHANGED <<writing, row, disk, dirs, open, delete, hurt>>

ToBuffer(u) ==
    /\ upload[u].at = "buffer"
    /\ upload' = [upload EXCEPT ![u].at = "save"]
    /\ writing' = [writing EXCEPT ![u] = "stat"]
    /\ UNCHANGED <<row, disk, dirs, open, delete, hurt>>

SaveRow(u) ==
    /\ upload[u].at = "save"
    /\ upload' = [upload EXCEPT ![u].at = "saved"]
    /\ row' = row \cup {u}
    /\ UNCHANGED <<writing, disk, dirs, open, delete, hurt>>

\* The file is too long, the client goes away, MySQL fails: 400, and a write
\* that has started goes on.
Refuse(u) ==
    /\ upload[u].at \in {"buffer", "save"}
    /\ upload' = [upload EXCEPT ![u].at = "refused"]
    /\ UNCHANGED <<writing, row, disk, dirs, open, delete, hurt>>

-----------------------------------------------------------------------------
\* saveLocalFile

Stat(u) ==
    /\ writing[u] = "stat"
    /\ writing' = [writing EXCEPT ![u] = IF Dir(Path(u)) \in dirs THEN "open" ELSE "mkdir"]
    /\ UNCHANGED <<upload, row, disk, dirs, open, delete, hurt>>

Mkdir(u) ==
    /\ writing[u] = "mkdir"
    /\ dirs' = dirs \cup {Dir(Path(u))}
    /\ writing' = [writing EXCEPT ![u] = "open"]
    /\ UNCHANGED <<upload, row, disk, open, delete, hurt>>

\* createWriteStream empties a file that is there.
Open(u) ==
    /\ writing[u] = "open"
    /\ IF Dir(Path(u)) \in dirs /\ open < MaxOpen
       THEN /\ disk' = [p \in DOMAIN disk \cup {Path(u)} |-> IF p = Path(u) THEN {} ELSE disk[p]]
            /\ open' = open + 1
            /\ writing' = [writing EXCEPT ![u] = "write"]
            /\ UNCHANGED hurt
       ELSE /\ writing' = [writing EXCEPT ![u] = "over"]
            /\ hurt' = IF open < MaxOpen THEN hurt ELSE hurt \cup {u}
            /\ UNCHANGED <<disk, open>>
    /\ UNCHANGED <<upload, row, dirs, delete>>

\* The stream holds the file even if it has been unlinked.
Write(u) ==
    /\ writing[u] = "write"
    /\ disk' = [p \in DOMAIN disk |-> IF p = Path(u) THEN disk[p] \cup {u} ELSE disk[p]]
    /\ writing' = [writing EXCEPT ![u] = "over"]
    /\ UNCHANGED <<upload, row, dirs, open, delete, hurt>>

\* A full disk; the rejection or the error event is logged.
WriteFails(u) ==
    /\ writing[u] \in {"mkdir", "open", "write"}
    /\ writing' = [writing EXCEPT ![u] = "over"]
    /\ hurt' = hurt \cup {u}
    /\ UNCHANGED <<upload, row, disk, dirs, open, delete>>

-----------------------------------------------------------------------------
\* StorageService.delete

DeleteRows(d, ids) ==
    /\ delete[d].at = "new"
    /\ row' = row \ ids
    /\ delete' = [delete EXCEPT ![d] = [at |-> "find", ids |-> ids, files |-> {},
                   whole |-> {u \in ids \cap row : writing[u] = "over" /\ u \notin hurt}]]
    /\ UNCHANGED <<upload, writing, disk, dirs, open, hurt>>

\* The paths are those of the rows findByIds still finds; deleteFile is not
\* awaited and its errors are dropped.
FindByIds(d) ==
    /\ delete[d].at = "find"
    /\ delete' = [delete EXCEPT ![d].at = "unlink", ![d].files = delete[d].ids \cap row]
    /\ UNCHANGED <<upload, writing, row, disk, dirs, open, hurt>>

DeleteFile(d, u) ==
    /\ delete[d].at = "unlink" /\ u \in delete[d].files
    /\ disk' = [p \in DOMAIN disk \ {Path(u)} |-> disk[p]]
    /\ delete' = [delete EXCEPT ![d].files = @ \ {u}]
    /\ UNCHANGED <<upload, writing, row, dirs, open, hurt>>

\* The process ends; it starts again with no file open.
Crash ==
    LET cut == {u \in Uploads : writing[u] \notin {"none", "over"}}
    IN  /\ cut # {} \/ open > 0
        /\ upload' = [u \in Uploads |-> IF upload[u].at \in {"buffer", "save"}
                                        THEN [upload[u] EXCEPT !.at = "refused"] ELSE upload[u]]
        /\ writing' = [u \in Uploads |-> IF u \in cut THEN "over" ELSE writing[u]]
        /\ hurt' = hurt \cup cut
        /\ delete' = [d \in Deletes |-> IF delete[d].at = "new" THEN delete[d]
                                        ELSE [delete[d] EXCEPT !.at = "unlink", !.files = {}, !.whole = {}]]
        /\ open' = 0
        /\ UNCHANGED <<row, disk, dirs>>

-----------------------------------------------------------------------------
Next ==
    \/ \E u \in Uploads :
         \/ NoFile(u) \/ ToBuffer(u) \/ SaveRow(u) \/ Refuse(u)
         \/ \E n \in Names, e \in Exts, t \in Moments, y \in Days : SaveFile(u, n, e, t, y)
         \/ Stat(u) \/ Mkdir(u) \/ Open(u) \/ Write(u) \/ WriteFails(u)
    \/ \E d \in Deletes :
         \/ \E ids \in (SUBSET Uploads) \ {{}} : DeleteRows(d, ids)
         \/ FindByIds(d)
         \/ \E u \in Uploads : DeleteFile(d, u)
    \/ Crash

Spec == Init /\ [][Next]_vars

-----------------------------------------------------------------------------
\* Properties

\* TypeOK: every variable stays in its type.
TypeOK ==
    /\ upload \in [Uploads -> Upload]
    /\ writing \in [Uploads -> {"none", "stat", "mkdir", "open", "write", "over"}]
    /\ row \in SUBSET Uploads
    /\ \A p \in DOMAIN disk : Dir(p) \in dirs /\ disk[p] \in SUBSET Uploads
    /\ open \in 0..MaxOpen
    /\ delete \in [Deletes -> Delete]
    /\ hurt \in SUBSET Uploads

\* RowsHaveFiles: once the write of an upload is over, and unless it failed or
\* the process ended under it, the file its row names is there and has its bytes
\* and no others, whatever was uploaded and deleted at the same time; only a
\* file of the same name and the same millisecond of the same minute takes its
\* place (saveLocalFile, fileRename), and only a delete that named the row
\* before it was there takes it away.
RowsHaveFiles ==
    \A u \in row :
        writing[u] = "over" /\ u \notin hurt
            /\ (\A v \in Uploads \ {u} : upload[v].at # "new" => ~Alike(upload[u], upload[v]))
            /\ (\A d \in Deletes : u \notin delete[d].ids) =>
            Path(u) \in DOMAIN disk /\ disk[Path(u)] = {u}

\* DeletedFilesGo: "删除文件" (delete files, storage.service.ts:80): when a call of
\* delete is over, the files of the rows it deleted are gone, those that were
\* complete and that no other upload had a part in.
DeletedFilesGo ==
    \A d \in Deletes :
        delete[d].at = "unlink" /\ delete[d].files = {} =>
            \A u \in delete[d].whole :
                Path(u) \in DOMAIN disk => disk[Path(u)] # {u}
=============================================================================
