--------------------------- MODULE MediaPipeline ---------------------------
(***************************************************************************)
(* From the upload of a file to the removal of its asset.                  *)
(*                                                                         *)
(* AssetsService (apps/api/src/assets/assets.service.ts) writes the file,  *)
(* the row and a job; the media worker (apps/media-worker/src) makes the   *)
(* thumbnail, and of a video in another format a recoded file that takes   *)
(* the place of the original; a removal deletes the row and then the files *)
(* the row named.  No step holds a lock: rows, files and jobs are          *)
(* changed one after the other by processes that may stop in between.      *)
(*                                                                         *)
(* Sizes, durations, codecs and the bytes are left out.  Redis and BullMQ  *)
(* are external: a job whose worker stopped is given out once more, and    *)
(* fails the second time.                                                  *)
(***************************************************************************)
EXTENDS Naturals, FiniteSets

CONSTANTS
    Assets,         \* ids that uploads can take
    Kinds,          \* of each id, what may be uploaded under it
    MaxFaults       \* bound: stops of the worker, failing calls, an absent queue

\* A video is recommended when it is MP4, H.264 and AAC.
Kind == {"image", "recommended", "other"}

ASSUME MediaAssumption == Kinds \in [Assets -> SUBSET Kind] /\ MaxFaults \in Nat

VARIABLES
    kind,       \* of each asset, "none" before its upload
    row,        \* the table assets
    files,      \* what the storage holds
    debris,     \* those of them that a failed or stopped writer left unfinished
    uploads,    \* uploads under way
    removal,    \* removals under way
    linked,     \* assets that are items of a playlist
    adding,     \* additions to a playlist that found the asset
    job,        \* the jobs of the queue
    tries,      \* times a job was given out again
    worker,     \* the job the worker is at
    cut,        \* history: assets whose recoding was stopped halfway
    touched,    \* history: removed while, or after, the worker stopped at or worked on them
    faults

vars == <<kind, row, files, debris, uploads, removal, linked, adding, job, tries, worker,
          cut, touched, faults>>

-----------------------------------------------------------------------------
NoRow == [key |-> "none", thumb |-> FALSE, processed |-> FALSE]
Row == [key : {"original", "normalized"}, thumb : BOOLEAN, processed : BOOLEAN]
File == Assets \X {"original", "normalized", "thumb"}

NoRemoval == [at |-> "none", key |-> "none", thumb |-> FALSE]
Removal == [at : {"read", "deleted"}, key : {"original", "normalized"}, thumb : BOOLEAN]

\* path is the file it plays from; normalized that it is a new one; thumb that it made one.
Free == [at |-> "free"]
Worker ==
    {Free} \union [at : {"read", "recoded", "unlinked", "thumbnail", "writing"}, asset : Assets,
                   path : {"original", "normalized"}, normalized : BOOLEAN, thumb : BOOLEAN]

Exists(a) == row[a] # NoRow
HasFile(a) == <<a, row[a].key>> \in files \ debris
Busy(a) == worker # Free /\ worker.asset = a
Fault == faults < MaxFaults /\ faults' = faults + 1

-----------------------------------------------------------------------------
(* AssetsService.                                                          *)

\* The file is written first; of an image the thumbnail too, if that succeeds.
WriteUpload(a, k, thumb) ==
    /\ kind[a] = "none" /\ (thumb => k = "image")
    /\ kind' = [kind EXCEPT ![a] = k]
    /\ files' = files \union {<<a, "original">>}
                      \union (IF thumb THEN {<<a, "thumb">>} ELSE {})
    /\ uploads' = uploads \union {a}
    /\ UNCHANGED <<debris, row, removal, linked, adding, job, tries, worker, cut, touched, faults>>

\* persistBufferAsset: the row, and then the job, unless the queue cannot be reached.
CreateAsset(a, published) ==
    /\ a \in uploads
    /\ uploads' = uploads \ {a}
    /\ row' = [row EXCEPT ![a] = [key |-> "original", thumb |-> <<a, "thumb">> \in files,
                                  processed |-> FALSE]]
    /\ job' = [job EXCEPT ![a] = IF published THEN "waiting" ELSE "none"]
    /\ IF published THEN UNCHANGED faults ELSE Fault
    /\ UNCHANGED <<kind, files, debris, removal, linked, adding, tries, worker, cut, touched>>

remove(a) ==
    /\ Exists(a) /\ removal[a] = NoRemoval
    /\ removal' = [removal EXCEPT ![a] = [at |-> "read", key |-> row[a].key, thumb |-> row[a].thumb]]
    /\ touched' = IF Busy(a) THEN touched \union {a} ELSE touched
    /\ UNCHANGED <<kind, row, files, debris, uploads, linked, adding, job, tries, worker, cut, faults>>

\* Mutant: the files go before the row, whether or not the row may go.
UnlinkFirst(a) ==
    /\ removal[a].at = "read"
    /\ files' = files \ {<<a, removal[a].key>>}
    /\ IF a \in linked
       THEN removal' = [removal EXCEPT ![a] = NoRemoval] /\ UNCHANGED row
       ELSE /\ row' = [row EXCEPT ![a] = NoRow]
            /\ removal' = [removal EXCEPT ![a].at = "deleted"]
    /\ touched' = IF Busy(a) THEN touched \union {a} ELSE touched
    /\ UNCHANGED <<kind, debris, uploads, linked, adding, job, tries, worker, cut, faults>>

\* The foreign key of playlist_items refuses to delete an asset that is in use.
DeleteRow(a) ==
    /\ removal[a].at = "read"
    /\ IF a \in linked
       THEN removal' = [removal EXCEPT ![a] = NoRemoval] /\ UNCHANGED row
       ELSE /\ row' = [row EXCEPT ![a] = NoRow]
            /\ removal' = [removal EXCEPT ![a].at = "deleted"]
    /\ touched' = IF Busy(a) THEN touched \union {a} ELSE touched
    /\ UNCHANGED <<kind, files, debris, uploads, linked, adding, job, tries, worker, cut, faults>>

\* The files are those the row named when it was read.
UnlinkFiles(a) ==
    /\ removal[a].at = "deleted"
    /\ LET named == {<<a, removal[a].key>>}
                     \union (IF removal[a].thumb THEN {<<a, "thumb">>} ELSE {})
       IN files' = files \ named /\ debris' = debris \ named
    /\ removal' = [removal EXCEPT ![a] = NoRemoval]
    /\ touched' = IF Busy(a) THEN touched \union {a} ELSE touched
    /\ UNCHANGED <<kind, row, uploads, linked, adding, job, tries, worker, cut, faults>>

-----------------------------------------------------------------------------
(* PlaylistsService, as far as it holds on to assets.                      *)

addItem(a) ==
    /\ Exists(a) /\ a \notin linked
    /\ adding' = adding \union {a}
    /\ UNCHANGED <<kind, row, files, debris, uploads, removal, linked, job, tries, worker, cut, touched, faults>>

\* The foreign key refuses an asset that was deleted meanwhile.
CreateItem(a) ==
    /\ a \in adding
    /\ adding' = adding \ {a}
    /\ linked' = IF Exists(a) THEN linked \union {a} ELSE linked
    /\ UNCHANGED <<kind, row, files, debris, uploads, removal, job, tries, worker, cut, touched, faults>>

removeItem(a) ==
    /\ a \in linked
    /\ linked' = linked \ {a}
    /\ UNCHANGED <<kind, row, files, debris, uploads, removal, adding, job, tries, worker, cut, touched, faults>>

-----------------------------------------------------------------------------
(* The media worker.                                                       *)

\* processAssetUploaded reads the row; without one there is nothing to do.
getAssetForProcessing(a) ==
    /\ worker = Free /\ job[a] = "waiting"
    /\ job' = [job EXCEPT ![a] = IF Exists(a) THEN "active" ELSE "done"]
    /\ worker' = IF Exists(a)
                 THEN [at |-> "read", asset |-> a, path |-> row[a].key,
                       normalized |-> FALSE, thumb |-> FALSE]
                 ELSE Free
    /\ touched' = IF removal[a] # NoRemoval THEN touched \union {a} ELSE touched
    /\ UNCHANGED <<kind, row, files, debris, uploads, removal, linked, adding, tries, cut, faults>>

\* needsNormalization: another format, and a file that cannot be probed counts as one.
NeedsNormalization(a) ==
    \/ kind[a] = "other" /\ worker.path = "original"
    \/ <<a, worker.path>> \notin files

\* processImage fails with the file it cannot read.
ReadImageFails(a) ==
    /\ Busy(a) /\ worker.at = "read" /\ kind[a] = "image" /\ <<a, worker.path>> \notin files
    /\ worker' = Free
    /\ job' = [job EXCEPT ![a] = "failed"]
    /\ UNCHANGED <<kind, row, files, debris, uploads, removal, linked, adding, tries, cut, touched, faults>>

\* An image, or a video that stays as it is.
KeepFile(a) ==
    /\ Busy(a) /\ worker.at = "read"
    /\ IF kind[a] = "image" THEN <<a, worker.path>> \in files ELSE ~NeedsNormalization(a)
    /\ worker' = [worker EXCEPT !.at = "thumbnail"]
    /\ UNCHANGED <<kind, row, files, debris, uploads, removal, linked, adding, job, tries, cut, touched, faults>>

\* A writer of the file n that fails, or is stopped, may have begun to write; nobody
\* removes what it wrote.
LeavesUnfinished(a, n) ==
    \/ UNCHANGED <<files, debris>>
    \/ /\ <<a, worker.path>> \in files
       /\ files' = files \union {<<a, n>>} /\ debris' = debris \union {<<a, n>>}

\* A file is made, in the place of any that was there.
Makes(a, n) == files' = files \union {<<a, n>>} /\ debris' = debris \ {<<a, n>>}

\* tryNormalizeVideo: ffmpeg makes a new file of one that is there, and may fail.
Recode(a) ==
    /\ Busy(a) /\ worker.at = "read" /\ kind[a] # "image" /\ NeedsNormalization(a)
    /\ <<a, worker.path>> \in files
    /\ Makes(a, "normalized")
    /\ worker' = [worker EXCEPT !.at = "recoded", !.path = "normalized", !.normalized = TRUE]
    /\ UNCHANGED <<kind, row, uploads, removal, linked, adding, job, tries, cut, touched, faults>>

\* ffmpeg fails or takes longer than five minutes: the original is kept, and so is the
\* part that was written, which no row names.
RecodeFails(a) ==
    /\ Busy(a) /\ worker.at = "read" /\ kind[a] # "image" /\ NeedsNormalization(a)
    /\ IF <<a, worker.path>> \in files THEN Fault ELSE UNCHANGED faults
    /\ LeavesUnfinished(a, "normalized")
    /\ worker' = [worker EXCEPT !.at = "thumbnail"]
    /\ UNCHANGED <<kind, row, uploads, removal, linked, adding, job, tries, cut, touched>>

UnlinkOriginal(a) ==
    /\ Busy(a) /\ worker.at = "recoded"
    /\ files' = files \ {<<a, "original">>}
    /\ worker' = [worker EXCEPT !.at = "unlinked"]
    /\ UNCHANGED <<kind, debris, row, uploads, removal, linked, adding, job, tries, cut, touched, faults>>

\* The thumbnail of the file there is; it may fail, and does without a file.
Thumbnail(a, made) ==
    /\ Busy(a) /\ worker.at \in {"unlinked", "thumbnail"}
    /\ made => <<a, worker.path>> \in files
    /\ IF made THEN Makes(a, "thumb") ELSE LeavesUnfinished(a, "thumb")
    /\ worker' = [worker EXCEPT !.at = "writing", !.thumb = made]
    /\ UNCHANGED <<kind, row, uploads, removal, linked, adding, job, tries, cut, touched, faults>>

\* Mutant: only what has a thumbnail counts as processed.
WriteThumbnailOnly(a) ==
    /\ Busy(a) /\ worker.at = "writing"
    /\ row' = IF Exists(a)
              THEN [row EXCEPT ![a] =
                      [key |-> IF worker.normalized THEN "normalized" ELSE @.key,
                       thumb |-> @.thumb \/ worker.thumb, processed |-> worker.thumb]]
              ELSE row
    /\ worker' = Free
    /\ job' = [job EXCEPT ![a] = "done"]
    /\ UNCHANGED <<kind, files, debris, uploads, removal, linked, adding, tries, cut, touched, faults>>

\* One UPDATE, which matches nothing when the row is gone; what the worker did not make
\* keeps its value.
updateAssetMetadata(a) ==
    /\ Busy(a) /\ worker.at = "writing"
    /\ row' = IF Exists(a)
              THEN [row EXCEPT ![a] =
                      [key |-> IF worker.normalized THEN "normalized" ELSE @.key,
                       thumb |-> @.thumb \/ worker.thumb, processed |-> TRUE]]
              ELSE row
    /\ worker' = Free
    /\ job' = [job EXCEPT ![a] = "done"]
    /\ UNCHANGED <<kind, files, debris, uploads, removal, linked, adding, tries, cut, touched, faults>>

\* The recoded file has replaced the original, and the row does not say so.
Halfway == worker # Free /\ worker.normalized /\ worker.at \in {"unlinked", "writing"}

\* What is not written down any more.
Leaves(a) ==
    /\ cut' = IF Halfway THEN cut \union {a} ELSE cut
    /\ touched' = touched \union {a}

\* The database refuses the update: the job fails, and is not tried again.
UpdateFails(a) ==
    /\ Busy(a) /\ worker.at = "writing" /\ Fault
    /\ worker' = Free
    /\ job' = [job EXCEPT ![a] = "failed"]
    /\ Leaves(a)
    /\ UNCHANGED <<kind, row, files, debris, uploads, removal, linked, adding, tries>>

\* Mutant: a job is lost with the worker it was given to.
LoseJob(a) ==
    /\ Busy(a) /\ Fault
    /\ worker' = Free
    /\ Leaves(a)
    /\ UNCHANGED <<kind, row, files, debris, uploads, removal, linked, adding, job, tries>>

\* The worker stops; BullMQ gives the job out again, once.
WorkerStops(a) ==
    /\ Busy(a) /\ Fault
    /\ worker' = Free
    /\ job' = [job EXCEPT ![a] = IF tries[a] = 0 THEN "waiting" ELSE "failed"]
    /\ tries' = [tries EXCEPT ![a] = 1]
    /\ Leaves(a)
    /\ \/ /\ worker.at = "read" /\ kind[a] # "image" /\ NeedsNormalization(a)
          /\ LeavesUnfinished(a, "normalized")
       \/ worker.at \in {"unlinked", "thumbnail"} /\ LeavesUnfinished(a, "thumb")
       \/ UNCHANGED <<files, debris>>
    /\ UNCHANGED <<kind, row, uploads, removal, linked, adding>>

-----------------------------------------------------------------------------
Init ==
    /\ kind = [a \in Assets |-> "none"]
    /\ row = [a \in Assets |-> NoRow]
    /\ files = {} /\ debris = {} /\ uploads = {} /\ linked = {} /\ adding = {}
    /\ removal = [a \in Assets |-> NoRemoval]
    /\ job = [a \in Assets |-> "none"] /\ tries = [a \in Assets |-> 0]
    /\ worker = Free
    /\ cut = {} /\ touched = {} /\ faults = 0

Api(a) ==
    \/ \E k \in Kinds[a], thumb \in BOOLEAN : WriteUpload(a, k, thumb)
    \/ \E published \in BOOLEAN : CreateAsset(a, published)
    \/ remove(a) \/ DeleteRow(a) \/ UnlinkFiles(a)
    \/ addItem(a) \/ CreateItem(a) \/ removeItem(a)

Process(a) ==
    \/ getAssetForProcessing(a) \/ ReadImageFails(a) \/ KeepFile(a)
    \/ Recode(a) \/ RecodeFails(a) \/ UnlinkOriginal(a)
    \/ \E made \in BOOLEAN : Thumbnail(a, made)
    \/ updateAssetMetadata(a)

Next == \E a \in Assets : Api(a) \/ Process(a) \/ UpdateFails(a) \/ WorkerStops(a)

\* The worker goes on with its job and takes the jobs there are.
Fairness == \A a \in Assets : WF_vars(Process(a))

Spec == Init /\ [][Next]_vars /\ Fairness

-----------------------------------------------------------------------------
TypeOK ==
    /\ kind \in [Assets -> Kind \union {"none"}]
    /\ row \in [Assets -> Row \union {NoRow}]
    /\ files \subseteq File /\ debris \subseteq files
    /\ uploads \subseteq Assets /\ adding \subseteq Assets
    /\ \A a \in linked : Exists(a)
    /\ removal \in [Assets -> Removal \union {NoRemoval}]
    /\ job \in [Assets -> {"none", "waiting", "active", "done", "failed"}]
    /\ tries \in [Assets -> 0 .. 1]
    /\ worker \in Worker
    /\ \A a \in Assets : job[a] = "active" <=> Busy(a)
    /\ cut \subseteq Assets /\ touched \subseteq Assets
    /\ faults \in 0 .. MaxFaults

\* The file a row names is in the storage, and finished, so that players and the CMS can
\* be sent it, except while the worker has unlinked the original and not yet written the
\* row, and for good after it was stopped there.  In particular a refused removal, a failed
\* recoding and a job that is given out twice take no file away.
RowsHaveFiles ==
    \A a \in Assets :
      Exists(a) /\ ~HasFile(a) => a \in cut \/ (Busy(a) /\ Halfway)

\* When an asset is removed, its files go with it: one that is left in the storage without
\* a row is the unfinished output of a recoding or thumbnail that failed, which no removal
\* deletes, or the asset was being processed at the time of the removal, or its processing
\* was stopped.
RemovalsLeaveNothing ==
    \A a \in Assets :
      /\ kind[a] # "none" /\ a \notin uploads /\ ~Exists(a) /\ removal[a] = NoRemoval
      /\ a \notin touched
      => \A f \in files \ debris : f[1] # a

\* Both: rows have their files, and files their rows (assets.service.ts, asset-processor.ts).
RowsAndFilesAgree == RowsHaveFiles /\ RemovalsLeaveNothing

\* An upload whose job reached the queue is processed, though the worker may stop at it
\* once, unless it is removed or the job fails.  The CMS says "A processar" until then.
UploadsAreProcessed ==
    \A a \in Assets :
      job[a] \in {"waiting", "active"} ~> (~Exists(a) \/ row[a].processed \/ job[a] = "failed")
=============================================================================
