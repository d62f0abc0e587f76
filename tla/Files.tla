------------------------------- MODULE Files -------------------------------
(***************************************************************************)
(* The files of FilesService: objects in the S3 bucket, some of which are  *)
(* thumbnails of others, and the rows of the database that stand for them. *)
(* The two are written one after the other and nothing makes them agree    *)
(* but the order of the calls and their success.                           *)
(*                                                                         *)
(* A key (s3Key, made of a random id) names an object and, being unique,   *)
(* at most one row at a time.  So does the key of a thumbnail: a client    *)
(* that confirms it makes it a file of its own.  A slot holds a request in *)
(* progress, each awaited call is a step.  A request whose checks          *)
(* (membership, type and size, ownership) fail changes nothing and is left *)
(* out.                                                                    *)
(***************************************************************************)
EXTENDS Naturals, FiniteSets

CONSTANTS
  Keys,          \* those buildKey can make
  Extensionless, \* those made of a file name without an extension
  ClientKeys,    \* bound: those clients are given a URL for or confirm
  Uploaders,     \* the users
  FileRequests,  \* the slots
  NoUploader, NoKey, NoExtension

(* buildThumbnailKey takes the extension off with slice(0, -length): of a  *)
(* name that has none nothing is left, so that all these share one key.    *)
ThumbnailOf(k) == IF k \in Extensionless THEN NoExtension ELSE <<k>>
ThumbnailKeys == {ThumbnailOf(k) : k \in Keys}
AllKeys == Keys \cup ThumbnailKeys

ASSUME FilesAssumption ==
  /\ NoUploader \notin Uploaders /\ NoKey \notin AllKeys
  /\ \A k \in Keys : NoExtension # <<k>> /\ ThumbnailOf(k) \notin Keys

VARIABLES
  issued,      \* the keys that have been made
  urls,        \* those with a presigned upload URL that has not expired
  objects,     \* the keys under which there is an object
  fileRow,     \* uploader and thumbnailKey of the row, or NoFile
  fileReq,     \* the requests in progress
  byClient,    \* history: the objects that a client has put there itself
  brokenOff,   \* history: the keys some request of which failed between two calls
  crossed,     \* history: the keys with a row whose object the delete of an earlier row took
  severed      \* history: the thumbnails that the delete of a row of their own took

bucket == <<objects, byClient, severed>>
fileVars == <<issued, urls, objects, fileRow, fileReq, byClient, brokenOff, crossed, severed>>

-----------------------------------------------------------------------------
NoFile == [uploader |-> NoUploader, thumb |-> FALSE]
NoFileRequest == [pc |-> "idle", key |-> NoKey, user |-> NoUploader, thumb |-> FALSE,
                  gone |-> FALSE]

BeginFile(r, locals) == fileReq[r].pc = "idle" /\ fileReq' = [fileReq EXCEPT ![r] = locals]
FileAt(r, pc) == fileReq[r].pc = pc
FileGoto(r, pc) == fileReq' = [fileReq EXCEPT ![r].pc = pc]
EndFile(r) == fileReq' = [fileReq EXCEPT ![r] = NoFileRequest]
Key(r) == fileReq[r].key
HasFile(k) == fileRow[k] # NoFile

FilesInit ==
  /\ issued = {} /\ urls = {}
  /\ objects = {}
  /\ fileRow = [k \in AllKeys |-> NoFile]
  /\ fileReq = [r \in FileRequests |-> NoFileRequest]
  /\ byClient = {} /\ brokenOff = {} /\ crossed = {} /\ severed = {}

-----------------------------------------------------------------------------
(* POST /files/presigned-url; with the URL the client puts the object      *)
(* under the key, as often as it likes until the URL expires.              *)
RequestPresignedUrl(k) ==
  /\ k \in ClientKeys \ issued
  /\ issued' = issued \cup {k} /\ urls' = urls \cup {k}
  /\ UNCHANGED <<bucket, fileRow, fileReq, brokenOff, crossed>>

PutByClient(k) ==
  /\ k \in urls
  /\ objects' = objects \cup {k} /\ byClient' = byClient \cup {k}
  /\ UNCHANGED <<issued, urls, fileRow, fileReq, brokenOff, crossed, severed>>

UrlExpires(k) ==
  /\ k \in urls
  /\ urls' = urls \ {k}
  /\ UNCHANGED <<issued, bucket, fileRow, fileReq, brokenOff, crossed>>

(* POST /files/confirm: the object is there, then the row is inserted.     *)
(* No thumbnail is made: downloadAndProcess throws, which is caught.  Any  *)
(* key that exists will do, a thumbnail's too, except that the client must *)
(* know it, so that no upload by the server is making it.                  *)
Under(k, steps) == \E r \in FileRequests : Key(r) = k /\ fileReq[r].pc \in steps
Known(k) ==
  /\ k \in ClientKeys
  /\ k \in issued => ~Under(k, {"put_thumbnail", "put_object", "upload_row"})

AnyKey(k) == TRUE
ObjectExists(k) == k \in objects

Confirm(r, u, k) ==
  /\ Known(k) /\ ObjectExists(k)
  /\ BeginFile(r, [NoFileRequest EXCEPT !.pc = "confirm_row", !.key = k, !.user = u])
  /\ UNCHANGED <<issued, urls, bucket, fileRow, brokenOff, crossed>>

InsertRow(k, u, thumb) ==
  /\ ~HasFile(k)
  /\ fileRow' = [fileRow EXCEPT ![k] = [uploader |-> u, thumb |-> thumb]]

ConfirmRow(r) ==
  /\ FileAt(r, "confirm_row")
  /\ InsertRow(Key(r), fileReq[r].user, FALSE)
  /\ crossed' = IF fileReq[r].gone THEN crossed \cup {Key(r)} ELSE crossed
  /\ EndFile(r)
  /\ UNCHANGED <<issued, urls, bucket, brokenOff>>

-----------------------------------------------------------------------------
(* POST /files/upload: thumbnail of an image, object, row.                 *)
UploadBuffer(r, u, k, image) ==
  /\ k \notin issued
  /\ issued' = issued \cup {k}
  /\ BeginFile(r, [NoFileRequest EXCEPT
                     !.pc = IF image THEN "put_thumbnail" ELSE "put_object",
                     !.key = k, !.user = u, !.thumb = image])
  /\ UNCHANGED <<urls, bucket, fileRow, brokenOff, crossed>>

PutThumbnail(r) ==
  /\ FileAt(r, "put_thumbnail")
  /\ objects' = objects \cup {ThumbnailOf(Key(r))}
  /\ FileGoto(r, "put_object")
  /\ UNCHANGED <<issued, urls, byClient, fileRow, brokenOff, crossed, severed>>

PutObject(r) ==
  /\ FileAt(r, "put_object")
  /\ objects' = objects \cup {Key(r)}
  /\ FileGoto(r, "upload_row")
  /\ UNCHANGED <<issued, urls, byClient, fileRow, brokenOff, crossed, severed>>

UploadRow(r) ==
  /\ FileAt(r, "upload_row")
  /\ InsertRow(Key(r), fileReq[r].user, fileReq[r].thumb)
  /\ EndFile(r)
  /\ UNCHANGED <<issued, urls, bucket, brokenOff, crossed>>

-----------------------------------------------------------------------------
(* The URLs of getDownloadUrl and of the lists are made without a look at  *)
(* the bucket; these lead to nothing.                                      *)
DeadLink(k) == HasFile(k) /\ k \notin objects
DeadThumbnail(k) == fileRow[k].thumb /\ ThumbnailOf(k) \notin objects

-----------------------------------------------------------------------------
(* DELETE /files/:id, by the uploader: object, thumbnail, row.  "gone" is  *)
(* set in the other requests on the key: of a confirm, the object it has   *)
(* found is gone, of a delete, the row.                                    *)
ConfirmsOf(k) == {r \in FileRequests : Key(r) = k /\ FileAt(r, "confirm_row")}
DeletesOf(k) == {r \in FileRequests : Key(r) = k /\ fileReq[r].pc \in
                   {"delete_object", "delete_thumbnail", "delete_row"}}

DeleteFile(r, k) ==
  /\ HasFile(k)
  /\ BeginFile(r, [NoFileRequest EXCEPT !.pc = "delete_object", !.key = k,
                     !.user = fileRow[k].uploader, !.thumb = fileRow[k].thumb])
  /\ UNCHANGED <<issued, urls, bucket, fileRow, brokenOff, crossed>>

AfterObject(q) == IF q.thumb THEN "delete_thumbnail" ELSE "delete_row"

DeleteObject(r) ==
  /\ FileAt(r, "delete_object")
  /\ objects' = objects \ {Key(r)} /\ byClient' = byClient \ {Key(r)}
  /\ severed' = severed \cup ({Key(r)} \cap ThumbnailKeys)
  /\ crossed' = IF fileReq[r].gone /\ HasFile(Key(r)) THEN crossed \cup {Key(r)} ELSE crossed
  /\ fileReq' = [q \in FileRequests |->
                   IF q = r THEN [fileReq[r] EXCEPT !.pc = AfterObject(fileReq[r])]
                   ELSE [fileReq[q] EXCEPT !.gone = @ \/ q \in ConfirmsOf(Key(r))]]
  /\ UNCHANGED <<issued, urls, fileRow, brokenOff>>

DeleteThumbnail(r) ==
  /\ FileAt(r, "delete_thumbnail")
  /\ objects' = objects \ {ThumbnailOf(Key(r))}
  /\ FileGoto(r, "delete_row")
  /\ UNCHANGED <<issued, urls, byClient, fileRow, brokenOff, crossed, severed>>

(* An error of this call alone is swallowed, and the row goes all the same.*)
DeleteThumbnailFails(r) ==
  /\ FileAt(r, "delete_thumbnail")
  /\ brokenOff' = brokenOff \cup {Key(r)}
  /\ FileGoto(r, "delete_row")
  /\ UNCHANGED <<issued, urls, bucket, fileRow, crossed>>

(* The row is deleted by its id.  If another delete was faster, that is an *)
(* error, even if by now the key has a new row.                            *)
DeleteRow(r) ==
  /\ FileAt(r, "delete_row") /\ ~fileReq[r].gone
  /\ fileRow' = [fileRow EXCEPT ![Key(r)] = NoFile]
  /\ fileReq' = [q \in FileRequests |->
                   IF q = r THEN NoFileRequest
                   ELSE [fileReq[q] EXCEPT !.gone = @ \/ q \in DeletesOf(Key(r))]]
  /\ UNCHANGED <<issued, urls, bucket, brokenOff, crossed>>

-----------------------------------------------------------------------------
(* A call fails, or the server stops: what was done stays, and what was    *)
(* yet to be done is never taken up again.                                 *)
FileRequestFails(r) ==
  /\ fileReq[r].pc # "idle"
  /\ brokenOff' = IF ~fileReq[r].gone /\ fileReq[r].pc \in
                      {"put_object", "upload_row", "delete_thumbnail", "delete_row"}
                  THEN brokenOff \cup {Key(r)} ELSE brokenOff
  /\ EndFile(r)
  /\ UNCHANGED <<issued, urls, bucket, fileRow, crossed>>

FilesNext ==
  \/ \E k \in Keys : RequestPresignedUrl(k) \/ PutByClient(k) \/ UrlExpires(k)
  \/ \E r \in FileRequests :
       \/ \E k \in Keys, u \in Uploaders, image \in BOOLEAN : UploadBuffer(r, u, k, image)
       \/ \E k \in AllKeys : DeleteFile(r, k) \/ \E u \in Uploaders : Confirm(r, u, k)
       \/ ConfirmRow(r) \/ PutThumbnail(r) \/ PutObject(r) \/ UploadRow(r)
       \/ DeleteObject(r) \/ DeleteThumbnail(r) \/ DeleteThumbnailFails(r) \/ DeleteRow(r)
       \/ FileRequestFails(r)

FilesTypeOK ==
  /\ issued \in SUBSET Keys
  /\ urls \in SUBSET issued
  /\ objects \in SUBSET (issued \cup {ThumbnailOf(k) : k \in issued})
  /\ fileRow \in [AllKeys -> [uploader : Uploaders \cup {NoUploader}, thumb : BOOLEAN]]
  /\ fileReq \in [FileRequests ->
       [pc : {"idle", "confirm_row", "put_thumbnail", "put_object", "upload_row",
              "delete_object", "delete_thumbnail", "delete_row"},
        key : AllKeys \cup {NoKey}, user : Uploaders \cup {NoUploader}, thumb : BOOLEAN,
        gone : BOOLEAN]]
  /\ byClient \in SUBSET (objects \cap issued)
  /\ brokenOff \in SUBSET AllKeys
  /\ crossed \in SUBSET AllKeys
  /\ severed \in SUBSET ThumbnailKeys

(* Bucket and database agree but for work that is under way or broke off:  *)
(* a row without its object is being deleted, or is a second row of the    *)
(* key, whose object fell to the delete of the first; an object without a  *)
(* row is being uploaded or was put there by a client, who may do so       *)
(* before confirming and after deleting; a thumbnail without a row that    *)
(* names it is being uploaded or deleted; and a row that names a thumbnail *)
(* has it, unless it shares the key with others that may be deleted, or    *)
(* someone confirmed the thumbnail as a file and deleted that.  Of the     *)
(* rows of thumbnails nothing is said: the delete of the file the          *)
(* thumbnail was made for takes their object.                              *)
StorageMatchesRows ==
  /\ \A k \in Keys \ brokenOff :
       /\ DeadLink(k) =>
            k \in crossed \/ Under(k, {"delete_thumbnail", "delete_row"})
       /\ k \in objects /\ ~HasFile(k) => k \in byClient \/ Under(k, {"upload_row"})
       /\ DeadThumbnail(k) =>
            k \in Extensionless \/ ThumbnailOf(k) \in severed \/ Under(k, {"delete_row"})
  /\ \A t \in objects \cap ThumbnailKeys : \E k \in Keys :
       /\ ThumbnailOf(k) = t
       /\ HasFile(k) \/ k \in brokenOff \/ Under(k, {"put_object", "upload_row"})
=============================================================================
