-------------------------- MODULE MediaPipeline_proofs --------------------------
(* Types, and the agreement of rows and files, hold for any set of assets and  *)
(* any number of faults.  The last part is about RtspBridge, the other place   *)
(* where ffmpeg runs: no state is shared.  Types, and that stopping is         *)
(* complete, hold for any elements and cameras and any bounds.                 *)
EXTENDS MediaPipeline, RtspBridge, SequenceTheorems, TLAPS

-----------------------------------------------------------------------------
(* The inductive invariant: what is true of each asset.                    *)

\* The files that were written to the end.
Whole == files \ debris

USE DEF Kind

\* An asset that was never uploaded has nothing.
UnusedOK(a) ==
    kind[a] = "none" =>
        /\ a \notin uploads /\ ~Exists(a) /\ removal[a] = NoRemoval /\ job[a] = "none"
        /\ \A n \in {"original", "normalized", "thumb"} : <<a, n>> \notin files

\* One whose upload is under way has its file, and nothing in the database.
UploadOK(a) ==
    a \in uploads =>
        /\ kind[a] # "none" /\ ~Exists(a) /\ removal[a] = NoRemoval /\ job[a] = "none"
        /\ <<a, "original">> \in Whole

\* What a removal holds is what the row said, unless the worker was at the asset since.
RemovalOK(a) ==
    /\ removal[a].at = "deleted" => ~Exists(a)
    /\ removal[a].at = "read" /\ a \notin touched =>
          Exists(a) /\ removal[a].key = row[a].key /\ removal[a].thumb = row[a].thumb
    /\ a \notin touched /\ Busy(a) => Exists(a) /\ removal[a] = NoRemoval

\* A worker that recoded a file still finds it while the row is there; one that did not
\* plays from the file the row names.
WorkerOK(a) ==
    Busy(a) =>
        /\ worker.at \in {"read", "thumbnail"} => ~worker.normalized
        /\ worker.at \in {"recoded", "unlinked"} => worker.normalized
        /\ worker.thumb => worker.at = "writing"
        /\ worker.normalized /\ Exists(a) => <<a, "normalized">> \in Whole
        /\ ~worker.normalized /\ Exists(a) => worker.path = row[a].key

\* RowsHaveFiles for one asset.
FileOK(a) == Exists(a) /\ ~HasFile(a) => a \in cut \/ (Busy(a) /\ Halfway)

Deletes(a, key) == removal[a].at = "deleted" /\ removal[a].key = key

\* Every finished file of an asset the worker and a removal did not meet at belongs to an upload,
\* is named by the row, will be named by it, or is about to be deleted.
TraceOK(a) ==
    a \notin touched =>
        /\ <<a, "original">> \in Whole =>
              \/ a \in uploads \/ Deletes(a, "original")
              \/ Exists(a) /\ row[a].key = "original" /\ ~(Busy(a) /\ Halfway)
        /\ <<a, "normalized">> \in Whole =>
              \/ Deletes(a, "normalized")
              \/ Exists(a) /\ (row[a].key = "normalized" \/ (Busy(a) /\ worker.normalized))
        /\ <<a, "thumb">> \in Whole =>
              \/ a \in uploads \/ (removal[a].at = "deleted" /\ removal[a].thumb)
              \/ Exists(a) /\ (row[a].thumb \/ (Busy(a) /\ worker.thumb))

AssetOK(a) == UnusedOK(a) /\ UploadOK(a) /\ RemovalOK(a) /\ WorkerOK(a) /\ FileOK(a) /\ TraceOK(a)

\* Originals are written by uploads alone, to the end.
Typed ==
    /\ TypeOK /\ linked \subseteq Assets
    /\ \A a \in Assets : <<a, "original">> \notin debris

IInv == Typed /\ \A a \in Assets : AssetOK(a)

LEMMA IInvImplies == IInv => TypeOK /\ RowsAndFilesAgree
<1> SUFFICES ASSUME IInv PROVE RowsHaveFiles /\ RemovalsLeaveNothing
  BY DEF IInv, Typed, RowsAndFilesAgree
<1>1. RowsHaveFiles
  BY DEF IInv, AssetOK, FileOK, RowsHaveFiles
<1>2. ASSUME NEW a \in Assets, NEW f \in files \ debris,
             kind[a] # "none", a \notin uploads, ~Exists(a),
             removal[a] = NoRemoval, a \notin touched, f[1] = a
      PROVE  FALSE
  <2>1. PICK n \in {"original", "normalized", "thumb"} : f = <<a, n>>
    BY <1>2 DEF IInv, Typed, TypeOK, File
  <2>2. removal[a].at # "deleted"
    BY <1>2 DEF NoRemoval
  <2> QED
    BY <1>2, <2>1, <2>2 DEF IInv, AssetOK, TraceOK, Deletes, Whole
<1> QED
  BY <1>1, <1>2 DEF RemovalsLeaveNothing

LEMMA InitHolds == Init => IInv
BY MediaAssumption
   DEF Init, IInv, Typed, TypeOK, AssetOK, UnusedOK, UploadOK, RemovalOK, WorkerOK, FileOK,
       TraceOK, Exists, Busy, Worker, NoRemoval, Whole

-----------------------------------------------------------------------------
(* A step changes one asset.                                               *)

\* What the invariant says of an asset is kept by steps for others.
Same(b) ==
    /\ kind'[b] = kind[b] /\ row'[b] = row[b] /\ removal'[b] = removal[b] /\ job'[b] = job[b]
    /\ b \in uploads' <=> b \in uploads
    /\ b \in touched' <=> b \in touched
    /\ b \in cut => b \in cut'
    /\ \A n \in {"original", "normalized", "thumb"} :
          /\ <<b, n>> \in files' <=> <<b, n>> \in files
          /\ <<b, n>> \in Whole' <=> <<b, n>> \in Whole
    /\ Busy(b)' <=> Busy(b)
    /\ Busy(b) => worker' = worker

LEMMA SameKeeps ==
    ASSUME Typed, NEW b \in Assets, AssetOK(b), Same(b)
    PROVE  AssetOK(b)'
<1> USE DEF AssetOK, Same
<1>1. Exists(b)' = Exists(b) /\ (Busy(b) => Halfway' = Halfway)
  BY DEF Exists, Halfway
<1>2. UnusedOK(b)' /\ UploadOK(b)'
  BY <1>1 DEF UnusedOK, UploadOK
<1>3. RemovalOK(b)' /\ WorkerOK(b)'
  BY <1>1 DEF RemovalOK, WorkerOK
<1>4. FileOK(b)'
  <2>1. Exists(b) => row[b].key \in {"original", "normalized"}
    BY DEF Typed, TypeOK, Row, Exists
  <2> QED
    BY <1>1, <2>1 DEF FileOK, HasFile, Whole
<1>5. TraceOK(b)'
  BY <1>1 DEF TraceOK, Deletes
<1> QED
  BY <1>2, <1>3, <1>4, <1>5

LEMMA StepFor ==
    ASSUME IInv, NEW a \in Assets, Typed', AssetOK(a)', \A b \in Assets \ {a} : Same(b)
    PROVE  IInv'
BY SameKeeps DEF IInv

\* What a writer of a file other than an original does to the storage: no other file is
\* touched, and the one written is finished, or not, or as it was.
OnlyTouches(a, n) ==
    /\ files' \subseteq File /\ debris' \subseteq files'
    /\ \A b \in Assets : <<b, "original">> \notin debris'
    /\ \A b \in Assets, m \in {"original", "normalized", "thumb"} : b # a \/ m # n =>
          /\ <<b, m>> \in files' <=> <<b, m>> \in files
          /\ <<b, m>> \in Whole' <=> <<b, m>> \in Whole

LEMMA Written ==
    ASSUME Typed, NEW a \in Assets, NEW n \in {"normalized", "thumb"}
    PROVE  /\ Makes(a, n) => OnlyTouches(a, n) /\ <<a, n>> \in Whole'
           /\ LeavesUnfinished(a, n) =>
                 /\ OnlyTouches(a, n)
                 /\ <<a, n>> \in Whole' => <<a, n>> \in Whole
                 /\ <<a, worker.path>> \notin files => Whole' = Whole
BY DEF Makes, LeavesUnfinished, OnlyTouches, Typed, TypeOK, File, Whole

\* A busy worker has the fields of one.
LEMMA WorkerTyped ==
    ASSUME Typed, NEW a \in Assets, Busy(a)
    PROVE  worker \in [at : {"read", "recoded", "unlinked", "thumbnail", "writing"}, asset : Assets,
                       path : {"original", "normalized"}, normalized : BOOLEAN, thumb : BOOLEAN]
BY DEF Typed, TypeOK, Worker, Busy

LEMMA WriteUploadStep ==
    ASSUME IInv, NEW a \in Assets, NEW k \in Kind, NEW thumb \in BOOLEAN, WriteUpload(a, k, thumb)
    PROVE  IInv'
<1>1. Typed /\ AssetOK(a)
  BY DEF IInv
<1>2. Typed'
  BY <1>1, MediaAssumption DEF WriteUpload, Typed, TypeOK, File, Exists, Busy
<1>3. \A b \in Assets \ {a} : Same(b)
  BY <1>1 DEF Same, Whole, WriteUpload, Busy
<1>4. UnusedOK(a)'
  BY <1>1, MediaAssumption DEF WriteUpload, Typed, TypeOK, UnusedOK
<1>5. UploadOK(a)'
  BY <1>1, MediaAssumption
     DEF Whole, WriteUpload, AssetOK, Typed, TypeOK, UnusedOK, UploadOK, Exists
<1>6. RemovalOK(a)'
  BY <1>1, MediaAssumption DEF WriteUpload, AssetOK, RemovalOK, Exists, Busy
<1>7. WorkerOK(a)'
  BY <1>1, MediaAssumption DEF Whole, WriteUpload, AssetOK, WorkerOK, Exists, Busy
<1>8. FileOK(a)'
  BY <1>1, MediaAssumption DEF WriteUpload, AssetOK, UnusedOK, FileOK, Exists
<1>9. TraceOK(a)'
  BY <1>1, MediaAssumption DEF Whole, WriteUpload, AssetOK, UnusedOK, TraceOK
<1> QED
  BY <1>2, <1>3, <1>4, <1>5, <1>6, <1>7, <1>8, <1>9, StepFor DEF AssetOK

LEMMA CreateAssetStep ==
    ASSUME IInv, NEW a \in Assets, NEW published \in BOOLEAN, CreateAsset(a, published)
    PROVE  IInv'
<1>1. Typed /\ AssetOK(a)
  BY DEF IInv
<1>2. Typed'
  BY <1>1, MediaAssumption
     DEF AssetOK, UploadOK, CreateAsset, Typed, TypeOK, Row, Exists, Busy, Fault
<1>3. \A b \in Assets \ {a} : Same(b)
  BY <1>1 DEF Same, Whole, CreateAsset, Busy
<1>4. UnusedOK(a)'
  BY <1>1, MediaAssumption DEF CreateAsset, AssetOK, UnusedOK
<1>5. UploadOK(a)'
  BY <1>1, MediaAssumption DEF Whole, CreateAsset, UploadOK
<1>6. RemovalOK(a)'
  BY <1>1, MediaAssumption DEF CreateAsset, AssetOK, UploadOK, RemovalOK, NoRemoval, Busy
<1>7. WorkerOK(a)'
  BY <1>1, MediaAssumption DEF Whole, CreateAsset, AssetOK, Typed, TypeOK, UploadOK, WorkerOK, Busy
<1>8. FileOK(a)'
  BY <1>1, MediaAssumption
     DEF CreateAsset, AssetOK, Typed, TypeOK, UploadOK, FileOK, HasFile, Whole
<1>9. TraceOK(a)'
  <2>1. /\ a \in uploads /\ removal[a] = NoRemoval /\ ~Exists(a)
        /\ UNCHANGED <<files, debris, removal, touched>>
        /\ row'[a] = [key |-> "original", thumb |-> <<a, "thumb">> \in files, processed |-> FALSE]
    BY <1>1 DEF AssetOK, UploadOK, Typed, TypeOK, CreateAsset
  <2>2. Exists(a)' /\ ~Busy(a)' /\ removal[a].at # "deleted"
    BY <1>1, <2>1 DEF AssetOK, UploadOK, Typed, TypeOK, CreateAsset, NoRow, NoRemoval, Exists, Busy
  <2>3. row'[a].key = "original" /\ (<<a, "thumb">> \in files => row'[a].thumb)
    <3> DEFINE t == <<a, "thumb">> \in files
    <3>1. row'[a] = [key |-> "original", thumb |-> t, processed |-> FALSE]
      BY <2>1
    <3> HIDE DEF t
    <3>2. row'[a].key = "original"
      BY <3>1
    <3>3. t => row'[a].thumb
      BY <3>1
    <3> QED
      BY <3>2, <3>3 DEF t
  <2> QED
    BY <1>1, <2>1, <2>2, <2>3 DEF AssetOK, TraceOK, Deletes, Exists, Whole
<1> QED
  BY <1>2, <1>3, <1>4, <1>5, <1>6, <1>7, <1>8, <1>9, StepFor DEF AssetOK

LEMMA removeStep ==
    ASSUME IInv, NEW a \in Assets, remove(a)
    PROVE  IInv'
<1>1. Typed /\ AssetOK(a)
  BY DEF IInv
<1>2. Typed'
  BY <1>1, MediaAssumption DEF remove, Typed, TypeOK, Row, Removal, Exists, Busy
<1>3. \A b \in Assets \ {a} : Same(b)
  BY <1>1 DEF Same, Whole, remove, Busy
<1>4. UnusedOK(a)'
  BY <1>1, MediaAssumption DEF remove, AssetOK, UnusedOK
<1>5. UploadOK(a)'
  BY <1>1, MediaAssumption DEF Whole, remove, AssetOK, UploadOK
<1>6. RemovalOK(a)'
  BY <1>1, MediaAssumption DEF remove, AssetOK, RemovalOK, Exists, Busy
<1>7. WorkerOK(a)'
  BY <1>1, MediaAssumption DEF Whole, remove, AssetOK, WorkerOK, Busy
<1>8. FileOK(a)'
  BY <1>1, MediaAssumption DEF remove, AssetOK, FileOK, HasFile, Whole, Busy, Halfway
<1>9. TraceOK(a)'
  BY <1>1, MediaAssumption DEF Whole, remove, AssetOK, RemovalOK, TraceOK, Deletes, Exists, Busy
<1> QED
  BY <1>2, <1>3, <1>4, <1>5, <1>6, <1>7, <1>8, <1>9, StepFor DEF AssetOK

LEMMA DeleteRowStep ==
    ASSUME IInv, NEW a \in Assets, DeleteRow(a)
    PROVE  IInv'
<1>1. Typed /\ AssetOK(a)
  BY DEF IInv
<1>2. Typed'
  BY <1>1, MediaAssumption DEF DeleteRow, Typed, TypeOK, Removal, NoRemoval, Exists, Busy
<1>3. \A b \in Assets \ {a} : Same(b)
  BY <1>1 DEF Same, Whole, Typed, TypeOK, DeleteRow, Busy
<1>4. \/ removal'[a] = NoRemoval /\ row' = row
      \/ row'[a] = NoRow /\ removal'[a] = [removal[a] EXCEPT !.at = "deleted"]
  BY <1>1 DEF DeleteRow, Typed, TypeOK
<1>5. removal'[a].at # "read" /\ (removal'[a].at = "deleted" => ~Exists(a)')
  BY <1>1, <1>4 DEF Typed, TypeOK, Removal, NoRemoval, Exists
<1>6. UnusedOK(a)'
  BY <1>1, <1>4, <1>5, MediaAssumption DEF DeleteRow, AssetOK, UnusedOK, NoRemoval
<1>7. UploadOK(a)'
  BY <1>1, <1>4, <1>5, MediaAssumption DEF Whole, DeleteRow, AssetOK, UploadOK, NoRemoval
<1>8. RemovalOK(a)'
  BY <1>1, <1>4, <1>5, MediaAssumption DEF DeleteRow, RemovalOK, Busy
<1>9. WorkerOK(a)'
  BY <1>1, <1>4, <1>5, MediaAssumption
     DEF DeleteRow, AssetOK, Typed, TypeOK, UnusedOK, UploadOK, RemovalOK, WorkerOK, FileOK,
         TraceOK, Row, NoRow, Removal, NoRemoval, Free, Worker, HasFile, Whole, Deletes, Exists,
         Busy, Fault, NeedsNormalization, Halfway, Leaves
<1>10. FileOK(a)'
  BY <1>1, <1>4, <1>5, MediaAssumption
     DEF DeleteRow, AssetOK, Typed, TypeOK, UnusedOK, UploadOK, RemovalOK, WorkerOK, FileOK,
         TraceOK, Row, NoRow, Removal, NoRemoval, Free, Worker, HasFile, Whole, Deletes, Exists,
         Busy, Fault, NeedsNormalization, Halfway, Leaves
<1>11. TraceOK(a)'
  BY <1>1, <1>4, <1>5, MediaAssumption
     DEF Whole, DeleteRow, AssetOK, Typed, TypeOK, RemovalOK, TraceOK, Removal, NoRemoval, Deletes,
         Exists, Busy
<1> QED
  BY <1>2, <1>3, <1>6, <1>7, <1>8, <1>9, <1>10, <1>11, StepFor DEF AssetOK

LEMMA UnlinkFilesStep ==
    ASSUME IInv, NEW a \in Assets, UnlinkFiles(a)
    PROVE  IInv'
<1>1. Typed /\ AssetOK(a)
  BY DEF IInv
<1>2. Typed'
  BY <1>1, MediaAssumption DEF UnlinkFiles, Typed, TypeOK, Exists, Busy
<1>3. \A b \in Assets \ {a} : Same(b)
  BY <1>1 DEF Same, Whole, UnlinkFiles, Busy
<1>4. UnusedOK(a)'
  BY <1>1, MediaAssumption DEF UnlinkFiles, AssetOK, UnusedOK, NoRemoval
<1>5. UploadOK(a)'
  BY <1>1, MediaAssumption DEF Whole, UnlinkFiles, AssetOK, UploadOK, NoRemoval
<1>6. RemovalOK(a)'
  BY <1>1, MediaAssumption DEF UnlinkFiles, Typed, TypeOK, RemovalOK, NoRemoval, Busy
<1>7. WorkerOK(a)'
  BY <1>1, MediaAssumption DEF Whole, UnlinkFiles, AssetOK, RemovalOK, WorkerOK, Exists, Busy
<1>8. FileOK(a)'
  BY <1>1, MediaAssumption DEF UnlinkFiles, AssetOK, RemovalOK, FileOK, Exists
<1>9. TraceOK(a)'
  BY <1>1, MediaAssumption DEF Whole, UnlinkFiles, AssetOK, RemovalOK, TraceOK, Deletes
<1> QED
  BY <1>2, <1>3, <1>4, <1>5, <1>6, <1>7, <1>8, <1>9, StepFor DEF AssetOK

\* PlaylistsService changes nothing the invariant says of files.
LEMMA ItemStep ==
    ASSUME IInv, NEW a \in Assets, addItem(a) \/ CreateItem(a) \/ removeItem(a)
    PROVE  IInv'
<1>1. Typed /\ AssetOK(a)
  BY DEF IInv
<1>2. Typed'
  BY <1>1 DEF addItem, CreateItem, removeItem, Typed, TypeOK, Exists, Busy
<1>3. \A b \in Assets : Same(b)
  BY DEF Same, Whole, addItem, CreateItem, removeItem, Busy
<1>4. AssetOK(a)'
  BY <1>1, <1>3, SameKeeps
<1> QED
  BY <1>2, <1>3, <1>4, StepFor

LEMMA getAssetForProcessingStep ==
    ASSUME IInv, NEW a \in Assets, getAssetForProcessing(a)
    PROVE  IInv'
<1>1. Typed /\ AssetOK(a)
  BY DEF IInv
<1>2. Typed'
  BY <1>1, MediaAssumption
     DEF getAssetForProcessing, Typed, TypeOK, Row, Free, Worker, Exists, Busy
<1>3. \A b \in Assets \ {a} : Same(b)
  BY <1>1 DEF Same, Whole, getAssetForProcessing, Busy
<1>4. UnusedOK(a)'
  BY <1>1, MediaAssumption DEF getAssetForProcessing, AssetOK, UnusedOK
<1>5. UploadOK(a)'
  BY <1>1, MediaAssumption DEF Whole, getAssetForProcessing, AssetOK, UploadOK
<1>6. RemovalOK(a)'
  BY <1>1, MediaAssumption DEF getAssetForProcessing, AssetOK, RemovalOK, Exists, Busy
<1>7. WorkerOK(a)'
  BY <1>1, MediaAssumption DEF Whole, getAssetForProcessing, WorkerOK, Busy
<1>8. FileOK(a)'
  BY <1>1, MediaAssumption DEF getAssetForProcessing, AssetOK, FileOK, HasFile, Whole, Exists, Busy
<1>9. TraceOK(a)'
  BY <1>1, MediaAssumption
     DEF Whole, getAssetForProcessing, AssetOK, TraceOK, Deletes, Exists, Busy, Halfway
<1> QED
  BY <1>2, <1>3, <1>4, <1>5, <1>6, <1>7, <1>8, <1>9, StepFor DEF AssetOK

LEMMA ReadImageFailsStep ==
    ASSUME IInv, NEW a \in Assets, ReadImageFails(a)
    PROVE  IInv'
<1>1. Typed /\ AssetOK(a)
  BY DEF IInv
<1>2. Typed'
  BY <1>1, MediaAssumption DEF ReadImageFails, Typed, TypeOK, Worker, Exists, Busy
<1>3. \A b \in Assets \ {a} : Same(b)
  BY <1>1 DEF Same, Whole, ReadImageFails, Busy
<1>4. UnusedOK(a)'
  BY <1>1, MediaAssumption DEF ReadImageFails, UnusedOK
<1>5. UploadOK(a)'
  BY <1>1, MediaAssumption DEF Whole, ReadImageFails, AssetOK, Typed, TypeOK, UploadOK
<1>6. RemovalOK(a)'
  BY <1>1, MediaAssumption DEF ReadImageFails, AssetOK, RemovalOK, Exists
<1>7. WorkerOK(a)'
  BY <1>1, MediaAssumption DEF Whole, ReadImageFails, WorkerOK, Busy
<1>8. FileOK(a)'
  BY <1>1, MediaAssumption DEF ReadImageFails, AssetOK, FileOK, HasFile, Whole, Exists, Halfway
<1>9. TraceOK(a)'
  BY <1>1, MediaAssumption
     DEF Whole, ReadImageFails, AssetOK, WorkerOK, TraceOK, Deletes, Exists, Busy
<1> QED
  BY <1>2, <1>3, <1>4, <1>5, <1>6, <1>7, <1>8, <1>9, StepFor DEF AssetOK

LEMMA KeepFileStep ==
    ASSUME IInv, NEW a \in Assets, KeepFile(a)
    PROVE  IInv'
<1>1. Typed /\ AssetOK(a)
  BY DEF IInv
<1>2. Typed'
  BY <1>1, MediaAssumption DEF KeepFile, Typed, TypeOK, Free, Worker, Exists, Busy
<1>3. \A b \in Assets \ {a} : Same(b)
  BY <1>1 DEF Same, Whole, KeepFile, Busy
<1>4. UnusedOK(a)'
  BY <1>1, MediaAssumption DEF KeepFile, AssetOK, Typed, TypeOK, UnusedOK
<1>5. UploadOK(a)'
  BY <1>1, MediaAssumption DEF Whole, KeepFile, AssetOK, Typed, TypeOK, UploadOK
<1>6. RemovalOK(a)'
  BY <1>1, MediaAssumption DEF KeepFile, AssetOK, RemovalOK, Exists
<1>7. WorkerOK(a)'
  <2>1. worker'.path = worker.path /\ worker'.normalized = worker.normalized
        /\ worker'.thumb = worker.thumb /\ worker'.at = "thumbnail"
    BY <1>1, WorkerTyped DEF KeepFile
  <2> QED
    BY <1>1, <2>1 DEF Whole, KeepFile, AssetOK, WorkerOK, Exists, Busy
<1>8. FileOK(a)'
  BY <1>1, MediaAssumption DEF KeepFile, AssetOK, FileOK, HasFile, Whole, Exists, Halfway
<1>9. TraceOK(a)'
  BY <1>1, MediaAssumption
     DEF Whole, KeepFile, AssetOK, WorkerOK, TraceOK, Deletes, Exists, Halfway
<1> QED
  BY <1>2, <1>3, <1>4, <1>5, <1>6, <1>7, <1>8, <1>9, StepFor DEF AssetOK

LEMMA RecodeStep ==
    ASSUME IInv, NEW a \in Assets, Recode(a)
    PROVE  IInv'
<1>1. Typed /\ AssetOK(a)
  BY DEF IInv
<1>a. /\ Busy(a) /\ worker.at = "read" /\ worker.asset = a
      /\ worker' = [worker EXCEPT !.at = "recoded", !.path = "normalized", !.normalized = TRUE]
  BY DEF Recode, Busy
<1>b. /\ worker' \in Worker /\ worker' # Free /\ worker'.asset = a /\ worker'.at = "recoded"
      /\ worker'.path = "normalized" /\ worker'.normalized /\ worker'.thumb = worker.thumb
  BY <1>1, <1>a, WorkerTyped DEF Worker, Free
<1>c. OnlyTouches(a, "normalized") /\ <<a, "normalized">> \in Whole'
  BY <1>1, Written DEF Recode
<1>2. Typed'
  BY <1>1, <1>a, <1>b, <1>c DEF Typed, TypeOK, OnlyTouches, Recode, Exists, Busy
<1>3. ASSUME NEW b \in Assets \ {a} PROVE Same(b)
  <2>1. ~Busy(b) /\ ~Busy(b)'
    BY <1>a, <1>b DEF Recode, Busy
  <2>2. \A n \in {"original", "normalized", "thumb"} :
           /\ <<b, n>> \in files' <=> <<b, n>> \in files
           /\ <<b, n>> \in Whole' <=> <<b, n>> \in Whole
    BY <1>c DEF OnlyTouches
  <2> QED
    BY <1>1, <2>1, <2>2 DEF Same, Recode
<1>4. UnusedOK(a)'
  BY <1>1, <1>a DEF Recode, AssetOK, Typed, TypeOK, UnusedOK
<1>5. UploadOK(a)'
  BY <1>1, <1>c DEF OnlyTouches, Recode, AssetOK, UploadOK, Exists
<1>6. RemovalOK(a)'
  BY <1>1, <1>a, <1>b DEF Recode, AssetOK, RemovalOK, Exists, Busy
<1>7. WorkerOK(a)'
  BY <1>1, <1>a, <1>b, <1>c DEF AssetOK, WorkerOK
<1>8. FileOK(a)'
  <2>1. Exists(a) => row[a].key \in {"original", "normalized"}
    BY <1>1 DEF Typed, TypeOK, Row, Exists
  <2> QED
    BY <1>1, <1>a, <1>b, <1>c, <2>1
       DEF Recode, AssetOK, FileOK, HasFile, OnlyTouches, Whole, Exists, Halfway
<1>9. TraceOK(a)'
  BY <1>1, <1>a, <1>b, <1>c
     DEF Recode, AssetOK, RemovalOK, OnlyTouches, TraceOK, Deletes, Exists, Busy, Halfway
<1> QED
  BY <1>2, <1>3, <1>4, <1>5, <1>6, <1>7, <1>8, <1>9, StepFor DEF AssetOK

LEMMA RecodeFailsStep ==
    ASSUME IInv, NEW a \in Assets, RecodeFails(a)
    PROVE  IInv'
<1>1. Typed /\ AssetOK(a)
  BY DEF IInv
<1>a. /\ Busy(a) /\ worker.at = "read" /\ worker.asset = a
      /\ worker' = [worker EXCEPT !.at = "thumbnail"]
  BY DEF RecodeFails, Busy
<1>b. /\ worker' \in Worker /\ worker' # Free /\ worker'.asset = a /\ worker'.at = "thumbnail"
      /\ worker'.path = worker.path /\ worker'.normalized = worker.normalized
      /\ worker'.thumb = worker.thumb
  BY <1>1, <1>a, WorkerTyped DEF Worker, Free
<1>c. /\ OnlyTouches(a, "normalized")
      /\ <<a, "normalized">> \in Whole' => <<a, "normalized">> \in Whole
      /\ <<a, worker.path>> \notin files => Whole' = Whole
  BY <1>1, Written DEF RecodeFails
<1>d. ~worker.normalized
  BY <1>1, <1>a DEF AssetOK, WorkerOK
<1>2. Typed'
  BY <1>1, <1>a, <1>b, <1>c, MediaAssumption
     DEF Typed, TypeOK, OnlyTouches, RecodeFails, Exists, Busy, Fault
<1>3. ASSUME NEW b \in Assets \ {a} PROVE Same(b)
  <2>1. ~Busy(b) /\ ~Busy(b)'
    BY <1>a, <1>b DEF RecodeFails, Busy
  <2>2. \A n \in {"original", "normalized", "thumb"} :
           /\ <<b, n>> \in files' <=> <<b, n>> \in files
           /\ <<b, n>> \in Whole' <=> <<b, n>> \in Whole
    BY <1>c DEF OnlyTouches
  <2> QED
    BY <1>1, <2>1, <2>2 DEF Same, RecodeFails
<1>4. UnusedOK(a)'
  BY <1>1, <1>a DEF RecodeFails, AssetOK, Typed, TypeOK, UnusedOK
<1>5. UploadOK(a)'
  BY <1>1, <1>c DEF OnlyTouches, RecodeFails, AssetOK, UploadOK, Exists
<1>6. RemovalOK(a)'
  BY <1>1, <1>a, <1>b DEF RecodeFails, AssetOK, RemovalOK, Exists, Busy
<1>7. WorkerOK(a)'
  BY <1>1, <1>a, <1>b, <1>d DEF RecodeFails, AssetOK, WorkerOK, Exists
<1>8. FileOK(a)'
  \* What may be spoiled is a new file, and the row names the one the worker plays from.
  <2>1. Exists(a) => row[a].key = worker.path
    BY <1>1, <1>a, <1>d DEF AssetOK, WorkerOK
  <2>2. <<a, worker.path>> \in files => worker.path = "original"
    BY DEF RecodeFails, NeedsNormalization
  <2>3. Exists(a) => (<<a, row[a].key>> \in Whole' <=> <<a, row[a].key>> \in Whole)
    BY <1>c, <2>1, <2>2 DEF OnlyTouches
  <2> QED
    BY <1>1, <1>a, <1>b, <1>d, <2>3
       DEF RecodeFails, AssetOK, FileOK, HasFile, Whole, Exists, Halfway
<1>9. TraceOK(a)'
  BY <1>1, <1>a, <1>b, <1>c, <1>d
     DEF RecodeFails, AssetOK, WorkerOK, OnlyTouches, TraceOK, Deletes, Exists, Busy, Halfway
<1> QED
  BY <1>2, <1>3, <1>4, <1>5, <1>6, <1>7, <1>8, <1>9, StepFor DEF AssetOK

LEMMA UnlinkOriginalStep ==
    ASSUME IInv, NEW a \in Assets, UnlinkOriginal(a)
    PROVE  IInv'
<1>1. Typed /\ AssetOK(a)
  BY DEF IInv
<1>2. Typed'
  BY <1>1, MediaAssumption DEF UnlinkOriginal, Typed, TypeOK, Free, Worker, Exists, Busy
<1>3. \A b \in Assets \ {a} : Same(b)
  BY <1>1 DEF Same, Whole, UnlinkOriginal, Busy
<1>4. UnusedOK(a)'
  BY <1>1, MediaAssumption DEF UnlinkOriginal, AssetOK, Typed, TypeOK, UnusedOK
<1>5. UploadOK(a)'
  BY <1>1, MediaAssumption DEF Whole, UnlinkOriginal, AssetOK, Typed, TypeOK, UploadOK
<1>6. RemovalOK(a)'
  BY <1>1, MediaAssumption DEF UnlinkOriginal, AssetOK, RemovalOK, Exists
<1>7. WorkerOK(a)'
  BY <1>1, MediaAssumption DEF Whole, UnlinkOriginal, AssetOK, WorkerOK, Exists
<1>8. FileOK(a)'
  BY <1>1, MediaAssumption
     DEF UnlinkOriginal, AssetOK, WorkerOK, FileOK, Free, Busy, Halfway
<1>9. TraceOK(a)'
  BY <1>1, MediaAssumption
     DEF Whole, UnlinkOriginal, AssetOK, RemovalOK, WorkerOK, TraceOK, Free, Exists, Busy
<1> QED
  BY <1>2, <1>3, <1>4, <1>5, <1>6, <1>7, <1>8, <1>9, StepFor DEF AssetOK

LEMMA ThumbnailStep ==
    ASSUME IInv, NEW a \in Assets, NEW made \in BOOLEAN, Thumbnail(a, made)
    PROVE  IInv'
<1>1. Typed /\ AssetOK(a)
  BY DEF IInv
<1>a. /\ Busy(a) /\ worker.at \in {"unlinked", "thumbnail"} /\ worker.asset = a
      /\ worker' = [worker EXCEPT !.at = "writing", !.thumb = made]
  BY DEF Thumbnail, Busy
<1>b. /\ worker' \in Worker /\ worker' # Free /\ worker'.asset = a /\ worker'.at = "writing"
      /\ worker'.path = worker.path /\ worker'.normalized = worker.normalized
      /\ worker'.thumb = made
  BY <1>1, <1>a, WorkerTyped DEF Worker, Free
<1>c. /\ OnlyTouches(a, "thumb")
      /\ <<a, "thumb">> \in Whole' => <<a, "thumb">> \in Whole \/ made
  BY <1>1, Written DEF Thumbnail
<1>d. ~worker.thumb /\ (worker.normalized <=> worker.at = "unlinked")
  BY <1>1, <1>a DEF AssetOK, WorkerOK
<1>2. Typed'
  BY <1>1, <1>a, <1>b, <1>c DEF Typed, TypeOK, OnlyTouches, Thumbnail, Exists, Busy
<1>3. ASSUME NEW b \in Assets \ {a} PROVE Same(b)
  <2>1. ~Busy(b) /\ ~Busy(b)'
    BY <1>a, <1>b DEF Thumbnail, Busy
  <2>2. \A n \in {"original", "normalized", "thumb"} :
           /\ <<b, n>> \in files' <=> <<b, n>> \in files
           /\ <<b, n>> \in Whole' <=> <<b, n>> \in Whole
    BY <1>c DEF OnlyTouches
  <2> QED
    BY <1>1, <2>1, <2>2 DEF Same, Thumbnail
<1>4. UnusedOK(a)'
  BY <1>1, <1>a DEF Thumbnail, AssetOK, Typed, TypeOK, UnusedOK
<1>5. UploadOK(a)'
  BY <1>1, <1>c DEF OnlyTouches, Thumbnail, AssetOK, UploadOK, Exists
<1>6. RemovalOK(a)'
  BY <1>1, <1>a, <1>b DEF Thumbnail, AssetOK, RemovalOK, Exists, Busy
<1>7. WorkerOK(a)'
  BY <1>1, <1>a, <1>b, <1>c DEF Thumbnail, AssetOK, WorkerOK, OnlyTouches, Exists
<1>8. FileOK(a)'
  <2>1. Exists(a) => row[a].key \in {"original", "normalized"}
    BY <1>1 DEF Typed, TypeOK, Row, Exists
  <2>2. Exists(a) => (<<a, row[a].key>> \in Whole' <=> <<a, row[a].key>> \in Whole)
    BY <1>c, <2>1 DEF OnlyTouches
  <2> QED
    BY <1>1, <1>a, <1>b, <1>d, <2>2
       DEF Thumbnail, AssetOK, FileOK, HasFile, Whole, Exists, Busy, Halfway
<1>9. TraceOK(a)'
  BY <1>1, <1>a, <1>b, <1>c, <1>d
     DEF Thumbnail, AssetOK, RemovalOK, OnlyTouches, TraceOK, Deletes, Exists, Busy, Halfway
<1> QED
  BY <1>2, <1>3, <1>4, <1>5, <1>6, <1>7, <1>8, <1>9, StepFor DEF AssetOK

LEMMA updateAssetMetadataStep ==
    ASSUME IInv, NEW a \in Assets, updateAssetMetadata(a)
    PROVE  IInv'
<1>1. Typed /\ AssetOK(a)
  BY DEF IInv
<1>2. Typed'
  BY <1>1, MediaAssumption
     DEF updateAssetMetadata, Typed, TypeOK, Row, NoRow, Worker, Exists, Busy
<1>3. \A b \in Assets \ {a} : Same(b)
  BY <1>1 DEF Same, Whole, updateAssetMetadata, Busy
<1>4. Exists(a)' = Exists(a) /\ Busy(a) /\ ~Busy(a)' /\ removal' = removal /\ touched' = touched
  BY <1>1 DEF updateAssetMetadata, Typed, TypeOK, Row, NoRow, Exists, Busy, Free
<1>5. UnusedOK(a)'
  BY <1>1, <1>4, MediaAssumption DEF updateAssetMetadata, AssetOK, Typed, TypeOK, UnusedOK
<1>6. UploadOK(a)'
  BY <1>1, <1>4, MediaAssumption DEF Whole, updateAssetMetadata, AssetOK, Typed, TypeOK, UploadOK
<1>7. RemovalOK(a)'
  BY <1>1, <1>4 DEF AssetOK, RemovalOK, NoRemoval
<1>8. WorkerOK(a)'
  BY <1>1, <1>4, MediaAssumption DEF Whole, WorkerOK
<1>9. FileOK(a)'
  BY <1>1, <1>4, MediaAssumption
     DEF updateAssetMetadata, AssetOK, Typed, TypeOK, WorkerOK, FileOK, HasFile, Whole, Halfway
<1>10. TraceOK(a)'
  BY <1>1, <1>4, MediaAssumption
     DEF Whole, updateAssetMetadata, AssetOK, Typed, TypeOK, TraceOK, Row, NoRow, Free, Worker,
         Deletes, Halfway
<1> QED
  BY <1>2, <1>3, <1>5, <1>6, <1>7, <1>8, <1>9, <1>10, StepFor DEF AssetOK

LEMMA UpdateFailsStep ==
    ASSUME IInv, NEW a \in Assets, UpdateFails(a)
    PROVE  IInv'
<1>1. Typed /\ AssetOK(a)
  BY DEF IInv
<1>2. Typed'
  BY <1>1, MediaAssumption
     DEF UpdateFails, Typed, TypeOK, Worker, Exists, Busy, Fault, Leaves
<1>3. \A b \in Assets \ {a} : Same(b)
  BY <1>1 DEF Same, Whole, UpdateFails, Busy, Leaves
<1>4. UnusedOK(a)'
  BY <1>1, MediaAssumption DEF UpdateFails, AssetOK, Typed, TypeOK, UnusedOK
<1>5. UploadOK(a)'
  BY <1>1, MediaAssumption DEF Whole, UpdateFails, AssetOK, Typed, TypeOK, UploadOK
<1>6. RemovalOK(a)'
  BY <1>1, MediaAssumption DEF UpdateFails, AssetOK, RemovalOK, Exists, Leaves
<1>7. WorkerOK(a)'
  BY <1>1, MediaAssumption DEF Whole, UpdateFails, WorkerOK, Busy
<1>8. FileOK(a)'
  BY <1>1, MediaAssumption DEF UpdateFails, AssetOK, FileOK, HasFile, Whole, Exists, Leaves
<1>9. TraceOK(a)'
  BY <1>1, MediaAssumption DEF Whole, UpdateFails, TraceOK, Leaves
<1> QED
  BY <1>2, <1>3, <1>4, <1>5, <1>6, <1>7, <1>8, <1>9, StepFor DEF AssetOK

LEMMA WorkerStopsStep ==
    ASSUME IInv, NEW a \in Assets, WorkerStops(a)
    PROVE  IInv'
<1>1. Typed /\ AssetOK(a)
  BY DEF IInv
<1>a. Busy(a) /\ worker' = Free /\ worker.asset = a
  BY DEF WorkerStops, Busy
<1>b. worker'.at = "free"
  BY <1>a DEF Free
<1>c. PICK n \in {"normalized", "thumb"} :
         /\ OnlyTouches(a, n)
         /\ <<a, n>> \in Whole' => <<a, n>> \in Whole
         /\ <<a, worker.path>> \notin files => Whole' = Whole
         /\ n = "normalized" => (worker.at = "read" /\ NeedsNormalization(a)) \/ Whole' = Whole
  <2>1. CASE UNCHANGED <<files, debris>>
    <3>1. LeavesUnfinished(a, "thumb")
      BY <2>1 DEF LeavesUnfinished
    <3> QED
      BY <1>1, <3>1, Written
  <2>2. CASE worker.at = "read" /\ NeedsNormalization(a) /\ LeavesUnfinished(a, "normalized")
    BY <1>1, <2>2, Written
  <2>3. CASE LeavesUnfinished(a, "thumb")
    BY <1>1, <2>3, Written
  <2> QED
    BY <2>1, <2>2, <2>3 DEF WorkerStops
<1>2. Typed'
  <2>1. /\ tries' \in [Assets -> 0 .. 1] /\ faults' \in 0 .. MaxFaults
        /\ cut' \subseteq Assets /\ touched' \subseteq Assets
        /\ job' \in [Assets -> {"none", "waiting", "active", "done", "failed"}]
        /\ \A b \in Assets : job'[b] # "active"
    BY <1>1, <1>a, MediaAssumption DEF Typed, TypeOK, WorkerStops, Leaves, Fault, Busy
  <2> QED
    BY <1>1, <1>a, <1>c, <2>1 DEF Typed, TypeOK, OnlyTouches, WorkerStops, Worker, Exists, Busy
<1>3. ASSUME NEW b \in Assets \ {a} PROVE Same(b)
  <2>1. ~Busy(b) /\ ~Busy(b)'
    BY <1>a DEF Busy
  <2>2. \A m \in {"original", "normalized", "thumb"} :
           /\ <<b, m>> \in files' <=> <<b, m>> \in files
           /\ <<b, m>> \in Whole' <=> <<b, m>> \in Whole
    BY <1>c DEF OnlyTouches
  <2> QED
    BY <1>1, <2>1, <2>2 DEF Same, WorkerStops, Leaves
<1>4. UnusedOK(a)'
  BY <1>1, <1>a DEF WorkerStops, AssetOK, Typed, TypeOK, UnusedOK
<1>5. UploadOK(a)'
  BY <1>1, <1>a DEF WorkerStops, AssetOK, Typed, TypeOK, UploadOK
<1>6. RemovalOK(a)'
  BY <1>1, <1>a DEF WorkerStops, AssetOK, RemovalOK, Exists, Leaves
<1>7. WorkerOK(a)'
  BY <1>a DEF WorkerOK, Busy
<1>8. FileOK(a)'
  <2>1. Exists(a) => row[a].key \in {"original", "normalized"}
    BY <1>1 DEF Typed, TypeOK, Row, Exists
  <2>2. worker.at = "read" /\ Exists(a) => row[a].key = worker.path
    BY <1>1, <1>a DEF AssetOK, WorkerOK
  <2>3. <<a, worker.path>> \in files /\ NeedsNormalization(a) => worker.path = "original"
    BY DEF NeedsNormalization
  <2>4. Exists(a) => (<<a, row[a].key>> \in Whole' <=> <<a, row[a].key>> \in Whole)
    BY <1>c, <2>1, <2>2, <2>3 DEF OnlyTouches
  <2> QED
    BY <1>1, <1>a, <2>4 DEF WorkerStops, AssetOK, FileOK, HasFile, Whole, Exists, Leaves
<1>9. TraceOK(a)'
  BY <1>1 DEF WorkerStops, TraceOK, Leaves
<1> QED
  BY <1>2, <1>3, <1>4, <1>5, <1>6, <1>7, <1>8, <1>9, StepFor DEF AssetOK

LEMMA NextHolds == IInv /\ [Next]_vars => IInv'
<1> SUFFICES ASSUME IInv, [Next]_vars PROVE IInv'
  OBVIOUS
<1>1. ASSUME NEW a \in Assets, Api(a) PROVE IInv'
  <2>1. Kinds[a] \subseteq Kind
    BY MediaAssumption
  <2>2. (\E k \in Kinds[a], thumb \in BOOLEAN : WriteUpload(a, k, thumb)) => IInv'
    BY <2>1, WriteUploadStep
  <2> QED
    BY <1>1, <2>2, CreateAssetStep, removeStep, DeleteRowStep, UnlinkFilesStep, ItemStep
       DEF Api
<1>2. ASSUME NEW a \in Assets, Process(a) PROVE IInv'
  BY <1>2, getAssetForProcessingStep, ReadImageFailsStep, KeepFileStep, RecodeStep,
     RecodeFailsStep, UnlinkOriginalStep, ThumbnailStep, updateAssetMetadataStep
     DEF Process
<1>3. ASSUME NEW a \in Assets, UpdateFails(a) \/ WorkerStops(a) PROVE IInv'
  BY <1>3, UpdateFailsStep, WorkerStopsStep
<1>4. CASE UNCHANGED vars
  <2>1. \A a \in Assets : Same(a)
    BY <1>4 DEF vars, Same, Busy, Whole
  <2>2. Typed'
    BY <1>4 DEF IInv, vars, Typed, TypeOK, Exists, Busy
  <2> QED
    BY <2>1, <2>2, SameKeeps DEF IInv
<1> QED
  BY <1>1, <1>2, <1>3, <1>4 DEF Next

-----------------------------------------------------------------------------
(* The theorems.                                                           *)

\* What is true of every asset: each of its files is named, about to be named or about to
\* be deleted, unless the worker and a removal met at it, or the worker was stopped, or the
\* file is the unfinished output of a recoding or thumbnail that failed.
THEOREM Invariance == Spec => []IInv
BY InitHolds, NextHolds, PTL DEF Spec

\* Rows, files, jobs and the worker keep their types.
THEOREM TypeCorrect == Spec => []TypeOK
BY Invariance, IInvImplies, PTL

\* Whatever uploads, the worker, its stops and removals do between each other's steps, a
\* row has its file, finished, unless the worker was stopped at exchanging it, and a removed
\* asset leaves no file but what a failed recoding or thumbnail left unfinished, unless the
\* worker was at it.
THEOREM RowsAndFilesStayInAgreement == Spec => []RowsAndFilesAgree
BY Invariance, IInvImplies, PTL

-----------------------------------------------------------------------------
(* The cameras of the Electron player (RtspBridge): the inductive invariant. *)

\* Calls that no element has been told the answer of.
Early == {"sent", "opening", "answered"}

\* Messages are of calls that were made; a start comes once, to a call it has not reached.
MessagesOK(q, cs) ==
    /\ q \in Seq(Message)
    /\ \A i \in DOMAIN q : /\ q[i].call \in DOMAIN cs
                           /\ q[i].type = "start" => cs[q[i].call].at = "sent"
    /\ \A i, j \in DOMAIN q :
          q[i].type = "start" /\ q[j].type = "start" /\ q[i].call = q[j].call => i = j

\* So does an answer, of a call that was answered.
AnswersOK(q, cs) ==
    /\ q \in Seq(Streams)
    /\ \A i \in DOMAIN q : q[i] \in DOMAIN cs /\ cs[q[i]].at = "answered"
    /\ \A i, j \in DOMAIN q : q[i] = q[j] => i = j

\* A stream is asked for once its call has been answered.
FreshOK(rs, cs) ==
    \A s \in Streams : s \in DOMAIN cs /\ cs[s].at \in Early =>
                          rs[<<s, 1>>].at = "none" /\ rs[<<s, 2>>].at = "none"
UnaskedOK(rs, cs) ==
    \A s \in Streams \ DOMAIN cs : rs[<<s, 1>>].at = "none" /\ rs[<<s, 2>>].at = "none"

\* The two requests for a stream: the second is made when the first is read no longer, and
\* is handled after it.
PairsOK(rs) ==
    \A s \in Streams :
        /\ \A n \in {1, 2} : rs[<<s, n>>].at = "none" => ~rs[<<s, n>>].reader
        /\ rs[<<s, 2>>].at # "none" => ~rs[<<s, 1>>].reader
        /\ rs[<<s, 2>>].at \notin {"none", "asked"} => rs[<<s, 1>>].at # "asked"

\* An ffmpeg that is read is the one of the map, of a stream that is registered.
ReadOK(rs, ps, ss) ==
    \A r \in Requests : rs[r].reader /\ rs[r].at = "running" => ps[r[1]] = r[2] /\ r[1] \in ss

ViewsOK(v, cs) == \A e \in Elements : v[e].at = "mounted" => v[e].call \in DOMAIN cs

Linked ==
    /\ MessagesOK(toMain, calls) /\ AnswersOK(toPage, calls) /\ ViewsOK(view, calls)
    /\ FreshOK(requests, calls) /\ UnaskedOK(requests, calls) /\ PairsOK(requests)
    /\ ReadOK(requests, processes, streams)

BridgeInv == BridgeTypeOK /\ (up => Linked)

-----------------------------------------------------------------------------
(* The sequences.                                                          *)

LEMMA CallsTyped ==
    ASSUME BridgeTypeOK
    PROVE  /\ Len(calls) \in Nat /\ DOMAIN calls = 1 .. Len(calls) /\ DOMAIN calls \subseteq Streams
           /\ \A s \in DOMAIN calls : calls[s] \in Call
           /\ \A e \in Elements : view[e] \in View
           /\ \A r \in Requests : requests[r] \in Request
           /\ calls \in Seq(Call) /\ requests \in [Requests -> Request]
           /\ view \in [Elements -> View] /\ processes \in [Streams -> 0 .. 2]
<1>1. calls \in Seq(Call) /\ Len(calls) <= MaxCalls
  BY DEF BridgeTypeOK
<1>2. Len(calls) \in Nat /\ DOMAIN calls = 1 .. Len(calls)
  BY <1>1
<1>3. DOMAIN calls \subseteq Streams
  BY <1>1, <1>2, BridgeAssumption DEF Streams
<1> QED
  BY <1>1, <1>2, <1>3 DEF BridgeTypeOK

LEMMA JoinOne ==
    ASSUME NEW S, NEW q \in Seq(S), NEW x \in S
    PROVE  q \o Append(<<>>, x) = Append(q, x)
<1>1. Append(<<>>, x) = <<x>>
  OBVIOUS
<1> QED
  BY <1>1, AppendIsConcat

LEMMA JoinTwo ==
    ASSUME NEW S, NEW q \in Seq(S), NEW x \in S, NEW y \in S
    PROVE  q \o Append(<<x>>, y) = Append(Append(q, x), y)
<1> DEFINE t == <<x, y>> u == q \o t w == Append(q, x) v == Append(w, y)
<1>1. Append(<<x>>, y) = t
  <2> DEFINE a == Append(<<x>>, y)
  <2>1. <<x>> \in Seq(S) /\ Len(<<x>>) = 1 /\ <<x>>[1] = x
    OBVIOUS
  <2>2. a \in Seq(S) /\ Len(a) = 2 /\ a[1] = x /\ a[2] = y
    BY <2>1, AppendProperties
  <2>3. t \in Seq(S) /\ Len(t) = 2 /\ t[1] = x /\ t[2] = y
    OBVIOUS
  <2> HIDE DEF a, t
  <2>4. a = t
    BY <2>2, <2>3
  <2> QED
    BY <2>4 DEF a
<1>2. t \in Seq(S) /\ Len(t) = 2 /\ t[1] = x /\ t[2] = y
  OBVIOUS
<1>3. w \in Seq(S) /\ Len(w) = Len(q) + 1 /\ Len(q) \in Nat
      /\ \A i \in 1 .. Len(q) + 1 : w[i] = IF i <= Len(q) THEN q[i] ELSE x
  <2>1. Append(q, x) \in Seq(S) /\ Len(Append(q, x)) = Len(q) + 1 /\ Len(q) \in Nat
    OBVIOUS
  <2>2. \A i \in 1 .. Len(q) + 1 : Append(q, x)[i] = IF i <= Len(q) THEN q[i] ELSE x
    BY <2>1, AppendProperties
  <2> QED
    BY <2>1, <2>2
<1> HIDE DEF w
<1>4. v \in Seq(S) /\ Len(v) = Len(q) + 2
      /\ \A i \in 1 .. Len(q) + 2 : v[i] = IF i <= Len(q) + 1 THEN w[i] ELSE y
  BY <1>3
<1> HIDE DEF t, v
<1>5. u \in Seq(S) /\ Len(u) = Len(q) + 2
      /\ \A i \in 1 .. Len(q) + 2 : u[i] = IF i <= Len(q) THEN q[i] ELSE t[i - Len(q)]
  <2>1. /\ q \o t \in Seq(S) /\ Len(q \o t) = Len(q) + Len(t)
        /\ \A i \in 1 .. Len(q) + Len(t) : (q \o t)[i] = IF i <= Len(q) THEN q[i] ELSE t[i - Len(q)]
    BY <1>2, ConcatProperties
  <2> QED
    BY <2>1, <1>2
<1> HIDE DEF u
<1>6. ASSUME NEW i \in 1 .. Len(q) + 2 PROVE u[i] = v[i]
  <2>1. CASE i <= Len(q)
    BY <2>1, <1>3, <1>4, <1>5
  <2>2. CASE i = Len(q) + 1
    BY <2>2, <1>2, <1>3, <1>4, <1>5
  <2>3. CASE i = Len(q) + 2
    BY <2>3, <1>2, <1>3, <1>4, <1>5
  <2> QED
    BY <2>1, <2>2, <2>3, <1>3
<1>7. u = v
  BY <1>3, <1>4, <1>5, <1>6
<1> QED
  BY <1>1, <1>7 DEF u, v, w

\* A queue after its first element has left it.
LEMMA Popped ==
    ASSUME NEW S, NEW q \in Seq(S), q # <<>>
    PROVE  /\ Tail(q) \in Seq(S) /\ Head(q) \in S /\ Head(q) = q[1] /\ 1 \in DOMAIN q
           /\ Tail(q) # q
           /\ \A i \in DOMAIN Tail(q) : i + 1 \in DOMAIN q /\ i \in Nat /\ Tail(q)[i] = q[i + 1]
                                        /\ i + 1 # 1
<1>1. Len(q) \in Nat /\ Len(q) # 0 /\ DOMAIN q = 1 .. Len(q)
  OBVIOUS
<1>2. /\ Tail(q) \in Seq(S) /\ Head(q) = q[1] /\ Len(Tail(q)) = Len(q) - 1
      /\ \A i \in 1 .. Len(q) - 1 : Tail(q)[i] = q[i + 1]
  BY <1>1
<1>3. DOMAIN Tail(q) = 1 .. Len(q) - 1
  BY <1>2
<1>4. 1 \in DOMAIN q /\ Head(q) \in S
  BY <1>1, <1>2
<1>5. Tail(q) # q
  <2>1. \A n \in Nat : n - 1 # n
    OBVIOUS
  <2> QED
    BY <2>1, <1>1, <1>2, Zenon
<1>6. ASSUME NEW i \in DOMAIN Tail(q)
      PROVE  i + 1 \in DOMAIN q /\ i \in Nat /\ Tail(q)[i] = q[i + 1] /\ i + 1 # 1
  BY <1>1, <1>2, <1>3
<1> QED
  BY <1>2, <1>4, <1>5, <1>6

LEMMA StopSent ==
    ASSUME NEW q, NEW cs, MessagesOK(q, cs), NEW s \in Streams, s \in DOMAIN cs
    PROVE  MessagesOK(Append(q, [type |-> "stop", call |-> s]), cs)
<1> DEFINE m == [type |-> "stop", call |-> s] p == Append(q, m)
<1>1. m \in Message /\ m.type = "stop" /\ m.call = s
  BY DEF Message
<1> HIDE DEF m
<1>2. q \in Seq(Message) /\ Len(q) \in Nat /\ DOMAIN q = 1 .. Len(q)
  BY DEF MessagesOK
<1>3. p \in Seq(Message) /\ DOMAIN p = 1 .. Len(q) + 1 /\ p[Len(q) + 1] = m
      /\ \A i \in 1 .. Len(q) : p[i] = q[i]
  BY <1>1, <1>2
<1> HIDE DEF p
<1>4. \A i \in DOMAIN p : p[i].call \in DOMAIN cs /\ (p[i].type = "start" => i \in DOMAIN q)
  BY <1>1, <1>2, <1>3 DEF MessagesOK
<1> QED
  BY <1>2, <1>3, <1>4 DEF MessagesOK, m, p

LEMMA StartSent ==
    ASSUME NEW q, NEW cs, MessagesOK(q, cs), NEW s \in Streams, s \in DOMAIN cs, cs[s].at = "sent",
           \A i \in DOMAIN q : q[i].call # s
    PROVE  MessagesOK(Append(q, StartOf(s)), cs)
<1> DEFINE m == StartOf(s) p == Append(q, m)
<1>1. m \in Message /\ m.type = "start" /\ m.call = s
  BY DEF Message, StartOf
<1> HIDE DEF m
<1>2. q \in Seq(Message) /\ Len(q) \in Nat /\ DOMAIN q = 1 .. Len(q)
  BY DEF MessagesOK
<1>3. p \in Seq(Message) /\ DOMAIN p = 1 .. Len(q) + 1 /\ p[Len(q) + 1] = m
      /\ \A i \in 1 .. Len(q) : p[i] = q[i]
  BY <1>1, <1>2
<1> HIDE DEF p
<1>4. \A i \in DOMAIN p : i \in DOMAIN q \/ i = Len(q) + 1
  BY <1>2, <1>3
<1>5. \A i \in DOMAIN p : p[i].call \in DOMAIN cs
         /\ (p[i].type = "start" => cs[p[i].call].at = "sent")
  BY <1>1, <1>2, <1>3, <1>4 DEF MessagesOK
<1>6. \A i, j \in DOMAIN p :
         p[i].type = "start" /\ p[j].type = "start" /\ p[i].call = p[j].call => i = j
  BY <1>1, <1>2, <1>3, <1>4 DEF MessagesOK
<1> QED
  BY <1>3, <1>5, <1>6 DEF MessagesOK, m, p

LEMMA MessageTaken ==
    ASSUME NEW q, NEW cs, MessagesOK(q, cs), q # <<>>
    PROVE  /\ MessagesOK(Tail(q), cs) /\ Head(q) \in Message /\ Head(q).call \in DOMAIN cs
           /\ Head(q).type = "start" =>
                 /\ cs[Head(q).call].at = "sent"
                 /\ \A i \in DOMAIN Tail(q) : Tail(q)[i].type = "start"
                       => Tail(q)[i].call # Head(q).call
<1> DEFINE p == Tail(q)
<1>1. q \in Seq(Message)
  BY DEF MessagesOK
<1>2. /\ p \in Seq(Message) /\ Head(q) \in Message /\ Head(q) = q[1] /\ 1 \in DOMAIN q
      /\ \A i \in DOMAIN p : i + 1 \in DOMAIN q /\ i \in Nat /\ p[i] = q[i + 1] /\ i + 1 # 1
  BY <1>1, Popped
<1> HIDE DEF p
<1>3. \A i \in DOMAIN p : p[i].call \in DOMAIN cs
         /\ (p[i].type = "start" => cs[p[i].call].at = "sent")
  BY <1>2 DEF MessagesOK
<1>4. ASSUME NEW i \in DOMAIN p, NEW j \in DOMAIN p,
             p[i].type = "start" /\ p[j].type = "start" /\ p[i].call = p[j].call
      PROVE  i = j
  <2>1. i + 1 = j + 1
    BY <1>2, <1>4 DEF MessagesOK
  <2> QED
    BY <2>1, <1>2
<1>5. MessagesOK(p, cs)
  BY <1>2, <1>3, <1>4 DEF MessagesOK
<1>6. Head(q).type = "start" =>
         /\ cs[Head(q).call].at = "sent"
         /\ \A i \in DOMAIN p : p[i].type = "start" => p[i].call # Head(q).call
  BY <1>2 DEF MessagesOK
<1> QED
  BY <1>2, <1>5, <1>6 DEF p, MessagesOK

LEMMA AnswerSent ==
    ASSUME NEW q, NEW cs, AnswersOK(q, cs), NEW s \in Streams, s \in DOMAIN cs,
           cs[s].at = "answered", \A i \in DOMAIN q : q[i] # s
    PROVE  AnswersOK(Append(q, s), cs)
<1> DEFINE p == Append(q, s)
<1>1. q \in Seq(Streams) /\ Len(q) \in Nat /\ DOMAIN q = 1 .. Len(q)
  BY DEF AnswersOK
<1>2. p \in Seq(Streams) /\ DOMAIN p = 1 .. Len(q) + 1 /\ p[Len(q) + 1] = s
      /\ \A i \in 1 .. Len(q) : p[i] = q[i]
  BY <1>1
<1> HIDE DEF p
<1>3. \A i \in DOMAIN p : i \in DOMAIN q \/ i = Len(q) + 1
  BY <1>1, <1>2
<1>4. \A i \in DOMAIN p : p[i] \in DOMAIN cs /\ cs[p[i]].at = "answered"
  BY <1>1, <1>2, <1>3 DEF AnswersOK
<1>5. \A i, j \in DOMAIN p : p[i] = p[j] => i = j
  BY <1>1, <1>2, <1>3 DEF AnswersOK
<1> QED
  BY <1>2, <1>4, <1>5 DEF AnswersOK, p

LEMMA AnswerTaken ==
    ASSUME NEW q, NEW cs, AnswersOK(q, cs), q # <<>>
    PROVE  /\ AnswersOK(Tail(q), cs) /\ Head(q) \in Streams /\ Head(q) \in DOMAIN cs
           /\ cs[Head(q)].at = "answered"
           /\ \A i \in DOMAIN Tail(q) : Tail(q)[i] # Head(q)
<1> DEFINE p == Tail(q)
<1>1. q \in Seq(Streams)
  BY DEF AnswersOK
<1>2. /\ p \in Seq(Streams) /\ Head(q) \in Streams /\ Head(q) = q[1] /\ 1 \in DOMAIN q
      /\ \A i \in DOMAIN p : i + 1 \in DOMAIN q /\ i \in Nat /\ p[i] = q[i + 1] /\ i + 1 # 1
  BY <1>1, Popped
<1> HIDE DEF p
<1>3. ASSUME NEW i \in DOMAIN p, NEW j \in DOMAIN p, p[i] = p[j] PROVE i = j
  <2>1. i + 1 = j + 1
    BY <1>2, <1>3 DEF AnswersOK
  <2> QED
    BY <2>1, <1>2
<1>4. AnswersOK(p, cs)
  BY <1>2, <1>3 DEF AnswersOK
<1>5. \A i \in DOMAIN p : p[i] # Head(q)
  BY <1>2 DEF AnswersOK
<1> QED
  BY <1>2, <1>4, <1>5 DEF p, AnswersOK

-----------------------------------------------------------------------------
(* What the links between the variables survive.                           *)

\* Calls go on: more of them, and those that have been answered for longer.
Later(cs, cs2) ==
    /\ DOMAIN cs \subseteq DOMAIN cs2
    /\ \A s \in DOMAIN cs : cs2[s].at = cs[s].at
          \/ (cs[s].at \notin Early /\ cs2[s].at \notin Early)

LEMMA LaterKeeps ==
    ASSUME NEW cs, NEW cs2, Later(cs, cs2), NEW q, NEW p, NEW v, NEW rs,
           MessagesOK(q, cs), AnswersOK(p, cs), ViewsOK(v, cs), FreshOK(rs, cs), UnaskedOK(rs, cs)
    PROVE  /\ MessagesOK(q, cs2) /\ AnswersOK(p, cs2) /\ ViewsOK(v, cs2)
           /\ FreshOK(rs, cs2) /\ UnaskedOK(rs, cs2)
<1>1. MessagesOK(q, cs2)
  BY DEF MessagesOK, Later, Early
<1>2. AnswersOK(p, cs2)
  BY DEF AnswersOK, Later, Early
<1>3. ViewsOK(v, cs2)
  BY DEF ViewsOK, Later
<1>4. FreshOK(rs, cs2)
  BY DEF FreshOK, UnaskedOK, Later
<1>5. UnaskedOK(rs, cs2)
  BY DEF UnaskedOK, Later
<1> QED
  BY <1>1, <1>2, <1>3, <1>4, <1>5

\* Elements stop reading.
Unreads(rs, rs2) ==
    \A r \in Requests : rs2[r].at = rs[r].at /\ (rs2[r].reader => rs[r].reader)

LEMMA UnreadKeeps ==
    ASSUME NEW rs, NEW rs2, Unreads(rs, rs2), NEW cs, NEW ps, NEW ss,
           FreshOK(rs, cs), UnaskedOK(rs, cs), PairsOK(rs), ReadOK(rs, ps, ss)
    PROVE  FreshOK(rs2, cs) /\ UnaskedOK(rs2, cs) /\ PairsOK(rs2) /\ ReadOK(rs2, ps, ss)
<1>1. \A s \in Streams, n \in {1, 2} :
         rs2[<<s, n>>].at = rs[<<s, n>>].at /\ (rs2[<<s, n>>].reader => rs[<<s, n>>].reader)
  BY DEF Unreads, Requests
<1>2. FreshOK(rs2, cs)
  BY <1>1 DEF FreshOK
<1>3. UnaskedOK(rs2, cs)
  BY <1>1 DEF UnaskedOK
<1>4. PairsOK(rs2)
  BY <1>1 DEF PairsOK
<1>5. ReadOK(rs2, ps, ss)
  BY DEF Unreads, ReadOK
<1> QED
  BY <1>2, <1>3, <1>4, <1>5

\* The entries of processes, the last part of the type invariant.
EntriesOK(ps, rs) ==
    \A s \in Streams : ps[s] # 0 => rs[<<s, ps[s]>>].at \in {"running", "ended"}

LEMMA TypesInParts ==
    BridgeTypeOK <=>
      /\ server \in {"none", "opening", "open", "failed"}
      /\ streams \subseteq 1..Len(calls)
      /\ processes \in [Streams -> 0..2]
      /\ requests \in [Requests -> Request]
      /\ calls \in Seq(Call) /\ Len(calls) <= MaxCalls
      /\ view \in [Elements -> View]
      /\ toMain \in Seq(Message) /\ toPage \in Seq(Streams)
      /\ spoiled \subseteq Streams /\ mishaps \in 0..MaxMishaps /\ up \in BOOLEAN
      /\ EntriesOK(processes, requests)
BY DEF BridgeTypeOK, EntriesOK

LEMMA UnreadKeepsEntries ==
    ASSUME NEW rs, NEW rs2, Unreads(rs, rs2), NEW ps \in [Streams -> 0 .. 2], EntriesOK(ps, rs)
    PROVE  EntriesOK(ps, rs2)
<1> SUFFICES ASSUME NEW s \in Streams, ps[s] # 0
             PROVE  rs2[<<s, ps[s]>>].at \in {"running", "ended"}
  BY DEF EntriesOK
<1>1. ps[s] \in {1, 2}
  OBVIOUS
<1>2. <<s, ps[s]>> \in Requests
  BY <1>1 DEF Requests
<1> QED
  BY <1>2 DEF EntriesOK, Unreads

LEMMA UnreadTyped ==
    ASSUME BridgeTypeOK, NEW e \in Elements
    PROVE  Unread(e) \in [Requests -> Request] /\ Unreads(requests, Unread(e))
<1>1. ASSUME NEW r \in Requests PROVE [requests[r] EXCEPT !.reader = FALSE] \in Request
                                      /\ requests[r] \in Request
                                      /\ [requests[r] EXCEPT !.reader = FALSE].at = requests[r].at
                                      /\ ~[requests[r] EXCEPT !.reader = FALSE].reader
  BY CallsTyped DEF Request
<1> QED
  BY <1>1 DEF Unread, Unreads

LEMMA CancelledTyped ==
    ASSUME BridgeTypeOK, NEW e \in Elements
    PROVE  /\ Cancelled(e) \in Seq(Call) /\ Len(Cancelled(e)) = Len(calls)
           /\ Later(calls, Cancelled(e)) /\ DOMAIN Cancelled(e) = DOMAIN calls
<1> DEFINE cs == Cancelled(e)
<1>1. DOMAIN cs = DOMAIN calls
  BY DEF Cancelled
<1>2. \A s \in DOMAIN calls : /\ cs[s] \in Call
                              /\ cs[s].at = calls[s].at
                                    \/ (calls[s].at = "loading" /\ cs[s].at = "over")
  BY CallsTyped DEF Cancelled, Call
<1>3. cs = [s \in 1 .. Len(calls) |-> cs[s]]
  BY CallsTyped DEF Cancelled
<1> HIDE DEF cs
<1>4. cs \in Seq(Call) /\ Len(cs) = Len(calls)
  BY <1>1, <1>2, <1>3, CallsTyped
<1>5. Later(calls, cs)
  BY <1>1, <1>2 DEF Later, Early
<1> QED
  BY <1>1, <1>4, <1>5 DEF cs

LEMMA TypesNext ==
    ASSUME server' \in {"none", "opening", "open", "failed"}, streams' \subseteq 1 .. Len(calls'),
           processes' \in [Streams -> 0 .. 2], requests' \in [Requests -> Request],
           calls' \in Seq(Call), Len(calls') <= MaxCalls, view' \in [Elements -> View],
           toMain' \in Seq(Message), toPage' \in Seq(Streams), spoiled' \subseteq Streams,
           mishaps' \in 0 .. MaxMishaps, up' \in BOOLEAN, EntriesOK(processes', requests')
    PROVE  BridgeTypeOK'
BY DEF BridgeTypeOK, EntriesOK

LEMMA LinkedNext ==
    ASSUME MessagesOK(toMain', calls'), AnswersOK(toPage', calls'), ViewsOK(view', calls'),
           FreshOK(requests', calls'), UnaskedOK(requests', calls'), PairsOK(requests'),
           ReadOK(requests', processes', streams')
    PROVE  Linked'
BY DEF Linked, MessagesOK, AnswersOK, ViewsOK, FreshOK, UnaskedOK, PairsOK, ReadOK

-----------------------------------------------------------------------------
(* The views.                                                              *)

LEMMA ZeroIsCall == 0 \in 0 .. MaxCalls
BY BridgeAssumption

LEMMA MishapsCounted == ASSUME BridgeTypeOK, Mishap PROVE mishaps' \in 0 .. MaxMishaps
BY BridgeAssumption DEF BridgeTypeOK, Mishap

\* connectRtspStream: one call more, which nothing knows of.
LEMMA ConnectKeeps ==
    ASSUME BridgeTypeOK, Linked, NEW e \in Elements, NEW c \in Cameras, NEW ms,
           ms = <<>> \/ (Mounted(e) /\ ms = <<StopOf(e)>>),
           Connect(e, c, ms), Unreads(requests, requests'), requests' \in [Requests -> Request],
           UNCHANGED <<server, streams, processes, toPage, spoiled, mishaps, up>>
    PROVE  BridgeTypeOK' /\ Linked'
<1> DEFINE s == Len(calls) + 1
           k == [element |-> e, camera |-> c, port |-> FALSE, at |-> "sent"]
           cs == Cancelled(e)
           q == IF ms = <<>> THEN toMain ELSE Append(toMain, StopOf(e))
<1>1. /\ s \in Streams /\ calls' = Append(cs, k) /\ toMain' = toMain \o Append(ms, StartOf(s))
      /\ view' = [view EXCEPT ![e] = [at |-> "mounted", call |-> s, src |-> 0,
                                      status |-> "connecting"]]
  BY DEF Connect
<1>2. k \in Call /\ k.at = "sent"
  BY DEF Call
<1>3. /\ cs \in Seq(Call) /\ Len(cs) = Len(calls) /\ Later(calls, cs) /\ DOMAIN cs = DOMAIN calls
      /\ Len(calls) \in Nat /\ DOMAIN calls = 1 .. Len(calls)
  BY CancelledTyped, CallsTyped
<1> HIDE DEF k, cs
<1>4. /\ calls' \in Seq(Call) /\ Len(calls') = Len(calls) + 1 /\ DOMAIN calls' = 1 .. s
      /\ calls'[s] = k /\ \A t \in 1 .. Len(calls) : calls'[t] = cs[t]
  BY <1>1, <1>2, <1>3
<1>5. Later(calls, calls') /\ s \in DOMAIN calls' /\ s \notin DOMAIN calls
  BY <1>3, <1>4 DEF Later
<1>6. /\ MessagesOK(toMain, calls') /\ AnswersOK(toPage, calls') /\ ViewsOK(view, calls')
      /\ FreshOK(requests, calls') /\ UnaskedOK(requests, calls')
  BY <1>5, LaterKeeps DEF Linked
<1>7. MessagesOK(q, calls') /\ \A i \in DOMAIN q : q[i].call # s
  <2>1. \A i \in DOMAIN toMain : toMain[i].call # s
    BY <1>5 DEF Linked, MessagesOK
  <2>2. CASE ms = <<>>
    BY <2>1, <2>2, <1>6
  <2>3. CASE ms # <<>>
    <3> DEFINE t == view[e].call
    <3>1. t \in DOMAIN calls /\ t \in Streams /\ StopOf(e) = [type |-> "stop", call |-> t]
      BY <2>3, CallsTyped DEF Mounted, Linked, ViewsOK, StopOf
    <3> HIDE DEF t
    <3>2. MessagesOK(q, calls')
      BY <2>3, <3>1, <1>5, <1>6, StopSent DEF Later
    <3>3. toMain \in Seq(Message) /\ StopOf(e) \in Message /\ StopOf(e).call # s
      BY <3>1, <1>5 DEF BridgeTypeOK, Message
    <3>4. \A i \in DOMAIN q : (i \in DOMAIN toMain /\ q[i] = toMain[i]) \/ q[i] = StopOf(e)
      BY <2>3, <3>3
    <3> QED
      BY <3>2, <3>3, <3>4, <2>1
  <2> QED
    BY <2>2, <2>3
<1>8. toMain' = Append(q, StartOf(s))
  <2>1. toMain \in Seq(Message) /\ StartOf(s) \in Message
    BY <1>1 DEF BridgeTypeOK, StartOf, Message
  <2> HIDE DEF s
  <2>2. CASE ms = <<>>
    BY <2>1, <2>2, <1>1, JoinOne
  <2>3. CASE ms # <<>>
    <3>1. ms = <<StopOf(e)>> /\ StopOf(e) \in Message
      BY <2>3, CallsTyped DEF Mounted, Linked, ViewsOK, StopOf, Message
    <3> QED
      BY <2>1, <2>3, <3>1, <1>1, JoinTwo
  <2> QED
    BY <2>2, <2>3
<1> HIDE DEF q
<1>9. MessagesOK(toMain', calls')
  <2>1. s \in Streams /\ s \in DOMAIN calls' /\ calls'[s].at = "sent"
    BY <1>1, <1>2, <1>4, <1>5
  <2> HIDE DEF s
  <2>2. MessagesOK(Append(q, StartOf(s)), calls')
    BY <1>7, <2>1, StartSent
  <2> QED
    BY <1>8, <2>2
<1>10. ViewsOK(view', calls') /\ view' \in [Elements -> View]
  <2>1. s \in 0 .. MaxCalls
    BY <1>1 DEF Streams
  <2>2. view' \in [Elements -> View]
    BY <1>1, <2>1, ZeroIsCall, CallsTyped DEF View
  <2>3. ViewsOK(view', calls')
    BY <1>1, <1>5, <1>6, CallsTyped DEF ViewsOK
  <2> QED
    BY <2>2, <2>3
<1>11. Linked'
  <2>1. /\ FreshOK(requests', calls') /\ UnaskedOK(requests', calls') /\ PairsOK(requests')
        /\ ReadOK(requests', processes', streams')
    BY <1>6, UnreadKeeps DEF Linked
  <2>2. AnswersOK(toPage', calls')
    BY <1>6
  <2> QED
    BY <2>1, <2>2, <1>9, <1>10, LinkedNext
<1>12. BridgeTypeOK'
  <2>1. EntriesOK(processes', requests')
    BY UnreadKeepsEntries DEF BridgeTypeOK, EntriesOK
  <2>2. streams' \subseteq 1 .. Len(calls') /\ Len(calls') <= MaxCalls
    BY <1>1, <1>3, <1>4, BridgeAssumption DEF BridgeTypeOK, Streams
  <2>3. toMain' \in Seq(Message)
    BY <1>9 DEF MessagesOK
  <2> QED
    BY <2>1, <2>2, <2>3, <1>4, <1>10, TypesNext DEF BridgeTypeOK
<1> QED
  BY <1>11, <1>12

LEMMA MountStep ==
    ASSUME BridgeTypeOK, Linked, NEW e \in Elements, NEW c \in Cameras, Mount(e, c)
    PROVE  BridgeTypeOK' /\ Linked'
BY ConnectKeeps, CallsTyped DEF Mount, Unreads

LEMMA ChangeStep ==
    ASSUME BridgeTypeOK, Linked, NEW e \in Elements, NEW c \in Cameras, ChangeCamera(e, c)
    PROVE  BridgeTypeOK' /\ Linked'
BY ConnectKeeps, UnreadTyped DEF ChangeCamera

LEMMA UnmountStep ==
    ASSUME BridgeTypeOK, Linked, NEW e \in Elements, Unmount(e)
    PROVE  BridgeTypeOK' /\ Linked'
<1> DEFINE cs == Cancelled(e) rs == Unread(e) t == view[e].call
<1>1. /\ cs \in Seq(Call) /\ Len(cs) = Len(calls) /\ Later(calls, cs) /\ DOMAIN cs = DOMAIN calls
      /\ rs \in [Requests -> Request] /\ Unreads(requests, rs)
  BY CancelledTyped, UnreadTyped
<1>2. /\ calls' = cs /\ requests' = rs /\ toMain' = Append(toMain, StopOf(e))
      /\ view' = [view EXCEPT ![e].at = "detached", ![e].src = 0]
      /\ Mounted(e) /\ UNCHANGED <<server, streams, processes, toPage, spoiled, mishaps, up>>
  BY DEF Unmount
<1> HIDE DEF cs, rs
<1>3. t \in DOMAIN cs /\ t \in Streams /\ StopOf(e) = [type |-> "stop", call |-> t]
  BY <1>1, <1>2, CallsTyped DEF Mounted, Linked, ViewsOK, StopOf
<1> HIDE DEF t
<1>4. /\ MessagesOK(toMain, cs) /\ AnswersOK(toPage, cs) /\ ViewsOK(view, cs)
      /\ FreshOK(requests, cs) /\ UnaskedOK(requests, cs)
  BY <1>1, LaterKeeps DEF Linked
<1>5. MessagesOK(toMain', calls')
  BY <1>2, <1>3, <1>4, StopSent
<1>6. ViewsOK(view', calls') /\ view' \in [Elements -> View]
  <2>1. view' \in [Elements -> View]
    BY <1>2, ZeroIsCall, CallsTyped DEF View
  <2>2. \A d \in Elements : view'[d].at = "mounted" => view[d].at = "mounted"
           /\ view'[d].call = view[d].call
    BY <1>2, CallsTyped DEF View
  <2> QED
    BY <2>1, <2>2, <1>2, <1>4 DEF ViewsOK
<1>7. /\ FreshOK(requests', calls') /\ UnaskedOK(requests', calls') /\ PairsOK(requests')
      /\ ReadOK(requests', processes', streams')
  BY <1>1, <1>2, <1>4, UnreadKeeps DEF Linked
<1>8. Linked'
  BY <1>2, <1>4, <1>5, <1>6, <1>7, LinkedNext
<1>9. EntriesOK(processes', requests')
  BY <1>1, <1>2, UnreadKeepsEntries DEF BridgeTypeOK, EntriesOK
<1>10. toMain' \in Seq(Message)
  BY <1>5 DEF MessagesOK
<1>11. BridgeTypeOK'
  BY <1>1, <1>2, <1>6, <1>9, <1>10, TypesNext DEF BridgeTypeOK
<1> QED
  BY <1>8, <1>11

LEMMA PageStep ==
    ASSUME BridgeTypeOK, Linked, LosePage
    PROVE  BridgeTypeOK' /\ Linked'
<1> DEFINE cs == [s \in DOMAIN calls |-> [calls[s] EXCEPT !.element = None,
                                            !.at = IF @ = "loading" THEN "over" ELSE @]]
           rs == [r \in Requests |-> [requests[r] EXCEPT !.reader = FALSE]]
<1>1. /\ calls' = cs /\ requests' = rs /\ Mishap
      /\ UNCHANGED <<server, streams, processes, toMain, toPage, spoiled, up>>
      /\ view' = [e \in Elements |-> IF Mounted(e) THEN [view[e] EXCEPT !.at = "detached",
            !.src = 0]
                                     ELSE [view[e] EXCEPT !.src = 0]]
  BY DEF LosePage
<1>2. rs \in [Requests -> Request] /\ Unreads(requests, rs)
  BY CallsTyped DEF Request, Unreads
<1>3. DOMAIN cs = DOMAIN calls
  OBVIOUS
<1>4. \A s \in DOMAIN calls : /\ cs[s] \in Call
                              /\ cs[s].at = calls[s].at
                                    \/ (calls[s].at = "loading" /\ cs[s].at = "over")
  BY CallsTyped DEF Call
<1>5. cs = [s \in 1 .. Len(calls) |-> cs[s]]
  BY CallsTyped
<1> HIDE DEF cs, rs
<1>6. cs \in Seq(Call) /\ Len(cs) = Len(calls)
  BY <1>3, <1>4, <1>5, CallsTyped
<1>6a. Later(calls, cs)
  BY <1>3, <1>4 DEF Later, Early
<1>7. /\ MessagesOK(toMain, cs) /\ AnswersOK(toPage, cs) /\ ViewsOK(view, cs)
      /\ FreshOK(requests, cs) /\ UnaskedOK(requests, cs)
  BY <1>6a, LaterKeeps DEF Linked
<1>8. ViewsOK(view', calls') /\ view' \in [Elements -> View]
  <2>1. \A e \in Elements : [view[e] EXCEPT !.at = "detached", !.src = 0] \in View
                            /\ [view[e] EXCEPT !.src = 0] \in View
    BY ZeroIsCall, CallsTyped DEF View
  <2>2. view' \in [Elements -> View]
    BY <1>1, <2>1
  <2>3. \A e \in Elements : view'[e].at # "mounted"
    BY <1>1, CallsTyped DEF Mounted, View
  <2> QED
    BY <2>2, <2>3 DEF ViewsOK
<1>9. /\ FreshOK(requests', calls') /\ UnaskedOK(requests', calls') /\ PairsOK(requests')
      /\ ReadOK(requests', processes', streams')
  BY <1>1, <1>2, <1>7, UnreadKeeps DEF Linked
<1>10. Linked'
  BY <1>1, <1>7, <1>8, <1>9, LinkedNext
<1>11. EntriesOK(processes', requests')
  BY <1>1, <1>2, UnreadKeepsEntries DEF BridgeTypeOK, EntriesOK
<1>12. BridgeTypeOK'
  BY <1>1, <1>2, <1>6, <1>8, <1>11, MishapsCounted, TypesNext DEF BridgeTypeOK
<1> QED
  BY <1>10, <1>12

\* The answer of a call reaches the page, and its element asks for the stream.
LEMMA ReceiveStep ==
    ASSUME BridgeTypeOK, Linked, ReceiveAnswer
    PROVE  BridgeTypeOK' /\ Linked'
<1> DEFINE s == Head(toPage)
           e == calls[s].element
           k == [calls[s] EXCEPT !.at = IF IsCurrent(s) THEN "loading" ELSE "over"]
<1>1. /\ toPage # <<>> /\ toPage' = Tail(toPage)
      /\ calls' = [calls EXCEPT ![s].at = IF IsCurrent(s) THEN "loading" ELSE "over"]
      /\ UNCHANGED <<server, streams, processes, toMain, spoiled, mishaps, up>>
      /\ \/ e = None /\ UNCHANGED <<view, requests>>
         \/ /\ e # None
            /\ view' = [view EXCEPT ![e].src = s]
            /\ requests' = [r \in Requests |-> IF r = <<s, 1>> /\ calls[s].port
                                               THEN [at |-> "asked", reader |-> TRUE]
                                               ELSE Unread(e)[r]]
  BY DEF ReceiveAnswer
<1>2. /\ AnswersOK(Tail(toPage), calls) /\ s \in Streams /\ s \in DOMAIN calls
      /\ calls[s].at = "answered" /\ \A i \in DOMAIN Tail(toPage) : Tail(toPage)[i] # s
  BY <1>1, AnswerTaken DEF Linked
<1>3. calls[s] \in Call /\ e \in Elements \union {None}
  BY <1>2, CallsTyped DEF Call
<1> HIDE DEF s, e
<1>4. k \in Call /\ k.at \in {"loading", "over"} /\ calls' = [calls EXCEPT ![s] = k]
  BY <1>1, <1>3, CallsTyped DEF Call
<1> HIDE DEF k
<1>5. /\ calls' \in Seq(Call) /\ Len(calls') = Len(calls) /\ DOMAIN calls' = DOMAIN calls
      /\ calls'[s] = k /\ \A t \in DOMAIN calls : t # s => calls'[t] = calls[t]
  BY <1>2, <1>4, CallsTyped
<1>6. MessagesOK(toMain', calls')
  BY <1>1, <1>2, <1>5 DEF Linked, MessagesOK
<1>7. AnswersOK(toPage', calls')
  BY <1>1, <1>2, <1>5 DEF AnswersOK
<1>8. ViewsOK(view', calls') /\ view' \in [Elements -> View]
  <2>1. CASE e = None
    BY <2>1, <1>1, <1>5, CallsTyped DEF Linked, ViewsOK
  <2>2. CASE e # None
    <3>1. s \in 0 .. MaxCalls
      BY <1>2 DEF Streams
    <3>2. view' = [view EXCEPT ![e] = [view[e] EXCEPT !.src = s]] /\ e \in Elements
      BY <1>1, <1>3, <2>2, CallsTyped
    <3>3. [view[e] EXCEPT !.src = s] \in View /\ [view[e] EXCEPT !.src = s].at = view[e].at
          /\ [view[e] EXCEPT !.src = s].call = view[e].call
      BY <3>1, <3>2, CallsTyped DEF View
    <3>4. view' \in [Elements -> View]
      BY <3>2, <3>3, CallsTyped
    <3>5. \A d \in Elements : view'[d].at = view[d].at /\ view'[d].call = view[d].call
      BY <3>2, <3>3, CallsTyped
    <3> QED
      BY <1>5, <3>4, <3>5 DEF Linked, ViewsOK
  <2> QED
    BY <2>1, <2>2
<1>9. /\ requests' \in [Requests -> Request]
      /\ \A r \in Requests \ {<<s, 1>>} : requests'[r].at = requests[r].at
                                          /\ (requests'[r].reader => requests[r].reader)
      /\ \/ requests'[<<s, 1>>] = [at |-> "asked", reader |-> TRUE]
         \/ requests'[<<s, 1>>].at = requests[<<s, 1>>].at
            /\ (requests'[<<s, 1>>].reader => requests[<<s, 1>>].reader)
  <2>1. CASE e = None
    BY <2>1, <1>1, CallsTyped
  <2>2. CASE e # None
    <3> DEFINE n == [at |-> "asked", reader |-> TRUE]
    <3>1. /\ e \in Elements
          /\ requests' = [r \in Requests |-> IF r = <<s, 1>>
                /\ calls[s].port THEN n ELSE Unread(e)[r]]
      BY <1>1, <1>3, <2>2
    <3>2. n \in Request
      BY DEF Request
    <3>3. Unread(e) \in [Requests -> Request] /\ Unreads(requests, Unread(e))
      BY <3>1, UnreadTyped
    <3>4. <<s, 1>> \in Requests
      BY <1>2 DEF Requests
    <3> HIDE DEF n
    <3>5. requests' \in [Requests -> Request]
      BY <3>1, <3>2, <3>3
    <3>6. \A r \in Requests : requests'[r] = n \/ requests'[r] = Unread(e)[r]
      BY <3>1
    <3>7. \A r \in Requests \ {<<s, 1>>} : requests'[r] = Unread(e)[r]
      BY <3>1
    <3> QED
      BY <3>3, <3>4, <3>5, <3>6, <3>7 DEF Unreads, n
  <2> QED
    BY <2>1, <2>2
<1>10. requests[<<s, 1>>].at = "none" /\ requests[<<s, 2>>].at = "none"
  BY <1>2 DEF Linked, FreshOK, Early
<1>11. /\ \A t \in Streams, n \in {1, 2} :
             t # s \/ n # 1 => /\ requests'[<<t, n>>].at = requests[<<t, n>>].at
                               /\ requests'[<<t, n>>].reader => requests[<<t, n>>].reader
       /\ <<s, 1>> \in Requests
  BY <1>2, <1>9 DEF Requests
<1>12. FreshOK(requests', calls')
  <2> SUFFICES ASSUME NEW t \in Streams, t \in DOMAIN calls', calls'[t].at \in Early
               PROVE  requests'[<<t, 1>>].at = "none" /\ requests'[<<t, 2>>].at = "none"
    BY DEF FreshOK
  <2>1. t # s
    BY <1>4, <1>5 DEF Early
  <2> QED
    BY <2>1, <1>5, <1>11 DEF Linked, FreshOK
<1>13. UnaskedOK(requests', calls')
  BY <1>2, <1>5, <1>11 DEF Linked, UnaskedOK
<1>14. PairsOK(requests')
  <2> SUFFICES ASSUME NEW t \in Streams
               PROVE  /\ \A n \in {1, 2} : requests'[<<t, n>>].at = "none"
                            => ~requests'[<<t, n>>].reader
                      /\ requests'[<<t, 2>>].at # "none" => ~requests'[<<t, 1>>].reader
                      /\ requests'[<<t, 2>>].at \notin {"none", "asked"}
                            => requests'[<<t, 1>>].at # "asked"
    BY DEF PairsOK
  <2>1. CASE t = s
    BY <2>1, <1>9, <1>10, <1>11 DEF Linked, PairsOK
  <2>2. CASE t # s
    BY <2>2, <1>11 DEF Linked, PairsOK
  <2> QED
    BY <2>1, <2>2
<1>15. ReadOK(requests', processes', streams')
  BY <1>1, <1>9, <1>10 DEF Linked, ReadOK
<1>16. Linked'
  BY <1>6, <1>7, <1>8, <1>12, <1>13, <1>14, <1>15, LinkedNext
<1>17. EntriesOK(processes', requests')
  <2> SUFFICES ASSUME NEW t \in Streams, processes[t] # 0
               PROVE  requests'[<<t, processes[t]>>].at \in {"running", "ended"}
    BY <1>1 DEF EntriesOK
  <2>1. processes[t] \in {1, 2} /\ requests[<<t, processes[t]>>].at \in {"running", "ended"}
    BY CallsTyped DEF BridgeTypeOK
  <2>2. t # s \/ processes[t] # 1
    BY <2>1, <1>10
  <2> QED
    BY <2>1, <2>2, <1>11
<1>18. toPage' \in Seq(Streams)
  BY <1>7 DEF AnswersOK
<1>19. BridgeTypeOK'
  BY <1>1, <1>5, <1>8, <1>9, <1>17, <1>18, TypesNext DEF BridgeTypeOK
<1> QED
  BY <1>16, <1>19

\* What both requests and the map of processes become when only one request r changes,
\* to q, and calls, views and messages do not.
LEMMA RequestBecomes ==
    ASSUME BridgeTypeOK, Linked, NEW s \in Streams, NEW n \in {1, 2}, NEW q \in Request,
           requests' = [requests EXCEPT ![<<s, n>>] = q],
           processes' \in [Streams -> 0 .. 2],
           \A t \in Streams \ {s} : processes'[t] = processes[t],
           requests[<<s, n>>].at # "none", q.at # "none",
           q.reader => requests[<<s, n>>].reader,
           q.at = "asked" => requests[<<s, n>>].at = "asked",
           n = 2 /\ requests[<<s, 2>>].at = "asked" => q.at = "asked"
              \/ requests[<<s, 1>>].at # "asked",
           processes'[s] # 0 =>
              \/ processes'[s] = n /\ q.at \in {"running", "ended"}
              \/ processes'[s] # n /\ processes'[s] = processes[s],
           UNCHANGED <<server, streams, calls, view, toMain, toPage, up>>
    PROVE  /\ spoiled' \subseteq Streams /\ mishaps' \in 0 .. MaxMishaps => BridgeTypeOK'
           /\ ReadOK(requests', processes', streams') => Linked'
<1>1. <<s, n>> \in Requests /\ requests' \in [Requests -> Request] /\ requests'[<<s, n>>] = q
      /\ \A r \in Requests \ {<<s, n>>} : requests'[r] = requests[r]
  BY CallsTyped DEF Requests
<1>2. \A t \in Streams, m \in {1, 2} : t # s \/ m # n => requests'[<<t, m>>] = requests[<<t, m>>]
  BY <1>1 DEF Requests
<1>3. FreshOK(requests', calls') /\ UnaskedOK(requests', calls')
  BY <1>2 DEF Linked, FreshOK, UnaskedOK
<1>4. PairsOK(requests')
  <2> SUFFICES ASSUME NEW t \in Streams
               PROVE  /\ \A m \in {1, 2} : requests'[<<t, m>>].at = "none"
                            => ~requests'[<<t, m>>].reader
                      /\ requests'[<<t, 2>>].at # "none" => ~requests'[<<t, 1>>].reader
                      /\ requests'[<<t, 2>>].at \notin {"none", "asked"}
                            => requests'[<<t, 1>>].at # "asked"
    BY DEF PairsOK
  <2>1. CASE t # s
    BY <2>1, <1>2 DEF Linked, PairsOK
  <2>2. CASE t = s
    <3>1. CASE n = 1
      BY <2>2, <3>1, <1>1, <1>2 DEF Linked, PairsOK
    <3>2. CASE n = 2
      BY <2>2, <3>2, <1>1, <1>2 DEF Linked, PairsOK
    <3> QED
      BY <3>1, <3>2
  <2> QED
    BY <2>1, <2>2
<1>5. EntriesOK(processes', requests')
  <2> SUFFICES ASSUME NEW t \in Streams, processes'[t] # 0
               PROVE  requests'[<<t, processes'[t]>>].at \in {"running", "ended"}
    BY DEF EntriesOK
  <2>1. processes'[t] \in {1, 2}
    OBVIOUS
  <2>2. CASE t # s
    <3>1. processes'[t] = processes[t] /\ requests[<<t, processes[t]>>].at \in {"running", "ended"}
      BY <2>2 DEF BridgeTypeOK
    <3> QED
      BY <2>1, <2>2, <3>1, <1>2
  <2>3. CASE t = s /\ processes'[s] = n
    BY <2>3, <1>1
  <2>4. CASE t = s /\ processes'[s] # n
    <3>1. processes'[t] = processes[t] /\ requests[<<t, processes[t]>>].at \in {"running", "ended"}
      BY <2>4 DEF BridgeTypeOK
    <3> QED
      BY <2>1, <2>4, <3>1, <1>2
  <2> QED
    BY <2>2, <2>3, <2>4
<1>6. spoiled' \subseteq Streams /\ mishaps' \in 0 .. MaxMishaps => BridgeTypeOK'
  BY <1>1, <1>5, TypesNext DEF BridgeTypeOK
<1>7. /\ MessagesOK(toMain', calls') /\ AnswersOK(toPage', calls') /\ ViewsOK(view', calls')
  BY DEF Linked
<1>8. ReadOK(requests', processes', streams') => Linked'
  BY <1>3, <1>4, <1>7, LinkedNext
<1> QED
  BY <1>6, <1>8

LEMMA AskStep ==
    ASSUME BridgeTypeOK, Linked, NEW s \in DOMAIN calls, AskAgain(s)
    PROVE  BridgeTypeOK' /\ Linked'
<1> DEFINE q == [requests[<<s, 1>>] EXCEPT !.reader = FALSE]
           n == [at |-> "asked", reader |-> TRUE]
<1>1. /\ Mishap /\ requests[<<s, 1>>].reader /\ requests[<<s, 1>>].at \in {"asked", "running"}
      /\ requests' = [requests EXCEPT ![<<s, 1>>].reader = FALSE,
                                      ![<<s, 2>>] = [at |-> "asked", reader |-> TRUE]]
      /\ UNCHANGED <<server, streams, processes, calls, view, toMain, toPage, spoiled, up>>
  BY DEF AskAgain
<1>2. /\ s \in Streams /\ <<s, 1>> \in Requests /\ <<s, 2>> \in Requests /\ <<s, 1>> # <<s, 2>>
      /\ requests \in [Requests -> Request] /\ requests[<<s, 1>>] \in Request
  BY CallsTyped DEF Requests
<1>3. requests' = [requests EXCEPT ![<<s, 1>>] = q, ![<<s, 2>>] = n]
  BY <1>1, <1>2
<1>4. q \in Request /\ n \in Request /\ q.at = requests[<<s, 1>>].at /\ ~q.reader /\ n.at = "asked"
  BY <1>2 DEF Request
<1> HIDE DEF q, n
<1>5. /\ requests' \in [Requests -> Request] /\ requests'[<<s, 1>>] = q /\ requests'[<<s, 2>>] = n
      /\ \A r \in Requests \ {<<s, 1>>, <<s, 2>>} : requests'[r] = requests[r]
  BY <1>2, <1>3, <1>4
<1>6. \A t \in Streams \ {s} : /\ requests'[<<t, 1>>] = requests[<<t, 1>>]
                               /\ requests'[<<t, 2>>] = requests[<<t, 2>>]
  BY <1>5 DEF Requests
<1>7. requests[<<s, 1>>].at # "none" /\ requests[<<s, 2>>].at = "none"
  BY <1>1, <1>2 DEF Linked, PairsOK
<1>8. FreshOK(requests', calls') /\ UnaskedOK(requests', calls')
  BY <1>1, <1>2, <1>6, <1>7 DEF Linked, FreshOK, UnaskedOK
<1>9. PairsOK(requests')
  <2> SUFFICES ASSUME NEW t \in Streams
               PROVE  /\ \A m \in {1, 2} : requests'[<<t, m>>].at = "none"
                            => ~requests'[<<t, m>>].reader
                      /\ requests'[<<t, 2>>].at # "none" => ~requests'[<<t, 1>>].reader
                      /\ requests'[<<t, 2>>].at \notin {"none", "asked"}
                            => requests'[<<t, 1>>].at # "asked"
    BY DEF PairsOK
  <2>1. CASE t # s
    BY <2>1, <1>6 DEF Linked, PairsOK
  <2>2. CASE t = s
    BY <2>2, <1>4, <1>5, <1>7
  <2> QED
    BY <2>1, <2>2
<1>10. ReadOK(requests', processes', streams')
  BY <1>1, <1>4, <1>5 DEF Linked, ReadOK
<1>11. EntriesOK(processes', requests')
  <2> SUFFICES ASSUME NEW t \in Streams, processes[t] # 0
               PROVE  requests'[<<t, processes[t]>>].at \in {"running", "ended"}
    BY <1>1 DEF EntriesOK
  <2>1. processes[t] \in {1, 2} /\ requests[<<t, processes[t]>>].at \in {"running", "ended"}
    BY CallsTyped DEF BridgeTypeOK
  <2>2. t = s => processes[t] = 1
    BY <2>1, <1>7
  <2> QED
    BY <2>1, <2>2, <1>4, <1>5, <1>6
<1>12. Linked'
  BY <1>1, <1>8, <1>9, <1>10, LinkedNext DEF Linked
<1>13. BridgeTypeOK'
  BY <1>1, <1>5, <1>11, MishapsCounted, TypesNext DEF BridgeTypeOK
<1> QED
  BY <1>12, <1>13

LEMMA SettleStep ==
    ASSUME BridgeTypeOK, Linked, NEW s \in DOMAIN calls, NEW status \in {"playing", "error"},
           PlaySettles(s, status)
    PROVE  BridgeTypeOK' /\ Linked'
<1> DEFINE e == calls[s].element
           k == [calls[s] EXCEPT !.at = "over"]
<1>1. /\ calls[s].at = "loading" /\ calls' = [calls EXCEPT ![s].at = "over"]
      /\ view' = [view EXCEPT ![e].status = status]
      /\ UNCHANGED <<server, streams, processes, requests, toMain, toPage, spoiled, mishaps, up>>
  BY DEF PlaySettles
<1>2. k \in Call /\ k.at = "over" /\ calls' = [calls EXCEPT ![s] = k]
  BY <1>1, CallsTyped DEF Call
<1> HIDE DEF k, e
<1>3. /\ calls' \in Seq(Call) /\ Len(calls') = Len(calls) /\ DOMAIN calls' = DOMAIN calls
      /\ calls'[s] = k /\ \A t \in DOMAIN calls : t # s => calls'[t] = calls[t]
  BY <1>2, CallsTyped
<1>4. Later(calls, calls')
  BY <1>1, <1>2, <1>3 DEF Later, Early
<1>5. \A d \in Elements : view'[d] \in View /\ view'[d].at = view[d].at
         /\ view'[d].call = view[d].call
  <2> TAKE d \in Elements
  <2>1. view[d] \in View
    BY CallsTyped
  <2>2. view'[d] = view[d] \/ view'[d] = [view[d] EXCEPT !.status = status]
    BY <1>1, CallsTyped
  <2> QED
    BY <2>1, <2>2 DEF View
<1>6. view' = [d \in Elements |-> view'[d]]
  BY <1>1, CallsTyped
<1>7. view' \in [Elements -> View]
  BY <1>5, <1>6
<1>8. /\ MessagesOK(toMain, calls') /\ AnswersOK(toPage, calls') /\ ViewsOK(view, calls')
      /\ FreshOK(requests, calls') /\ UnaskedOK(requests, calls')
  BY <1>4, LaterKeeps DEF Linked
<1>9. ViewsOK(view', calls')
  BY <1>5, <1>8 DEF ViewsOK
<1>10. Linked'
  BY <1>1, <1>8, <1>9, LinkedNext DEF Linked
<1>11. BridgeTypeOK'
  BY <1>1, <1>3, <1>7, TypesNext DEF BridgeTypeOK, EntriesOK
<1> QED
  BY <1>10, <1>11

-----------------------------------------------------------------------------
(* The main process.                                                       *)

\* A call whose start was taken, or that waits for the server, is answered.
LEMMA RegisterKeeps ==
    ASSUME BridgeTypeOK, Linked, NEW s \in DOMAIN calls, NEW port \in BOOLEAN,
           calls[s].at \in {"sent", "opening"}, Register(s, port),
           toMain' = toMain \/ (toMain # <<>> /\ toMain' = Tail(toMain)),
           \A i \in DOMAIN toMain' : toMain'[i].type = "start" => toMain'[i].call # s,
           UNCHANGED <<processes, requests, view, mishaps, up>>,
           server' \in {"none", "opening", "open", "failed"}, spoiled' \subseteq Streams
    PROVE  BridgeTypeOK' /\ Linked'
<1> DEFINE k == [calls[s] EXCEPT !.at = "answered", !.port = port]
<1>1. /\ streams' = streams \union {s} /\ toPage' = Append(toPage, s)
      /\ calls' = [calls EXCEPT ![s].at = "answered", ![s].port = port]
  BY DEF Register
<1>2. k \in Call /\ k.at = "answered" /\ calls' = [calls EXCEPT ![s] = k]
  BY <1>1, CallsTyped DEF Call
<1> HIDE DEF k
<1>3. /\ calls' \in Seq(Call) /\ Len(calls') = Len(calls) /\ DOMAIN calls' = DOMAIN calls
      /\ calls'[s] = k /\ \A t \in DOMAIN calls : t # s => calls'[t] = calls[t]
  BY <1>2, CallsTyped
<1>4. MessagesOK(toMain', calls)
  BY MessageTaken DEF Linked
<1>5. MessagesOK(toMain', calls')
  BY <1>3, <1>4 DEF MessagesOK
<1>6. AnswersOK(toPage, calls') /\ \A i \in DOMAIN toPage : toPage[i] # s
  BY <1>3 DEF Linked, AnswersOK
<1>7. AnswersOK(toPage', calls')
  <2>1. s \in Streams /\ s \in DOMAIN calls' /\ calls'[s].at = "answered"
    BY <1>2, <1>3, CallsTyped
  <2>2. AnswersOK(Append(toPage, s), calls')
    BY <1>6, <2>1, AnswerSent
  <2> QED
    BY <1>1, <2>2
<1>8. ViewsOK(view', calls')
  BY <1>3 DEF Linked, ViewsOK
<1>9. FreshOK(requests', calls') /\ UnaskedOK(requests', calls')
  BY <1>3 DEF Linked, FreshOK, UnaskedOK, Early
<1>10. ReadOK(requests', processes', streams')
  BY <1>1 DEF Linked, ReadOK
<1>11. Linked'
  BY <1>5, <1>7, <1>8, <1>9, <1>10, LinkedNext DEF Linked
<1>12. streams' \subseteq 1 .. Len(calls')
  BY <1>1, <1>3, CallsTyped DEF BridgeTypeOK
<1>13. toMain' \in Seq(Message) /\ toPage' \in Seq(Streams)
  BY <1>5, <1>7 DEF MessagesOK, AnswersOK
<1>14. BridgeTypeOK'
  BY <1>3, <1>12, <1>13, TypesNext DEF BridgeTypeOK, EntriesOK
<1> QED
  BY <1>11, <1>14

LEMMA StartStep ==
    ASSUME BridgeTypeOK, Linked, HandleStart
    PROVE  BridgeTypeOK' /\ Linked'
<1> DEFINE s == Head(toMain).call
<1>1. /\ toMain # <<>> /\ Head(toMain).type = "start" /\ toMain' = Tail(toMain)
      /\ UNCHANGED <<processes, requests, view, mishaps, up>>
  BY DEF HandleStart
<1>2. /\ MessagesOK(toMain', calls) /\ s \in DOMAIN calls /\ s \in Streams /\ calls[s].at = "sent"
      /\ \A i \in DOMAIN toMain' : toMain'[i].type = "start" => toMain'[i].call # s
  BY <1>1, MessageTaken, CallsTyped DEF Linked
<1>3. \/ /\ server' = "opening" /\ calls' = [calls EXCEPT ![s].at = "opening"]
         /\ UNCHANGED <<streams, toPage, spoiled>>
      \/ Register(s, TRUE) /\ UNCHANGED <<server, spoiled>>
      \/ Register(s, FALSE) /\ spoiled' = spoiled \union {s} /\ UNCHANGED server
  BY DEF HandleStart
<1> HIDE DEF s
<1>4. CASE /\ server' = "opening" /\ calls' = [calls EXCEPT ![s].at = "opening"]
           /\ UNCHANGED <<streams, toPage, spoiled>>
  <2> DEFINE k == [calls[s] EXCEPT !.at = "opening"]
  <2>1. k \in Call /\ k.at = "opening" /\ calls' = [calls EXCEPT ![s] = k]
    BY <1>2, <1>4, CallsTyped DEF Call
  <2> HIDE DEF k
  <2>2. /\ calls' \in Seq(Call) /\ Len(calls') = Len(calls) /\ DOMAIN calls' = DOMAIN calls
        /\ calls'[s] = k /\ \A t \in DOMAIN calls : t # s => calls'[t] = calls[t]
    BY <1>2, <2>1, CallsTyped
  <2>3. MessagesOK(toMain', calls')
    BY <1>2, <2>2 DEF MessagesOK
  <2>4. AnswersOK(toPage', calls')
    BY <1>2, <1>4, <2>2 DEF Linked, AnswersOK
  <2>5. ViewsOK(view', calls')
    BY <1>1, <2>2 DEF Linked, ViewsOK
  <2>6. FreshOK(requests', calls') /\ UnaskedOK(requests', calls')
    BY <1>1, <1>2, <2>2 DEF Linked, FreshOK, UnaskedOK, Early
  <2>7. Linked'
    BY <1>1, <1>4, <2>3, <2>4, <2>5, <2>6, LinkedNext DEF Linked
  <2>8. toMain' \in Seq(Message)
    BY <2>3 DEF MessagesOK
  <2>9. BridgeTypeOK'
    BY <1>1, <1>4, <2>2, <2>8, TypesNext DEF BridgeTypeOK, EntriesOK
  <2> QED
    BY <2>7, <2>9
<1>5. CASE Register(s, TRUE) /\ UNCHANGED <<server, spoiled>>
  BY <1>1, <1>2, <1>5, RegisterKeeps DEF BridgeTypeOK
<1>6. CASE Register(s, FALSE) /\ spoiled' = spoiled \union {s} /\ UNCHANGED server
  BY <1>1, <1>2, <1>6, RegisterKeeps DEF BridgeTypeOK
<1> QED
  BY <1>3, <1>4, <1>5, <1>6

LEMMA ListenStep ==
    ASSUME BridgeTypeOK, Linked, Listening
    PROVE  BridgeTypeOK' /\ Linked'
<1>1. PICK s \in DOMAIN calls : calls[s].at = "opening" /\ Register(s, TRUE)
  BY DEF Listening
<1>2. \A i \in DOMAIN toMain : toMain[i].type = "start" => toMain[i].call # s
  BY <1>1 DEF Linked, MessagesOK
<1> QED
  BY <1>1, <1>2, RegisterKeeps DEF Listening, BridgeTypeOK

LEMMA ListenFailsStep ==
    ASSUME BridgeTypeOK, Linked, ListenFails
    PROVE  BridgeTypeOK' /\ Linked'
<1>1. PICK s \in DOMAIN calls :
         /\ calls[s].at = "opening"
         /\ calls' = [calls EXCEPT ![s].at = "over"]
         /\ view' = [e \in Elements |-> IF Mounted(e) /\ view[e].call = s
                                        THEN [view[e] EXCEPT !.status = "error"] ELSE view[e]]
         /\ spoiled' = spoiled \union {s}
  BY DEF ListenFails
<1>2. /\ Mishap /\ server' = "failed"
      /\ UNCHANGED <<streams, processes, requests, toMain, toPage, up>>
  BY DEF ListenFails
<1> DEFINE k == [calls[s] EXCEPT !.at = "over"]
<1>3. k \in Call /\ k.at = "over" /\ calls' = [calls EXCEPT ![s] = k]
  BY <1>1, CallsTyped DEF Call
<1> HIDE DEF k
<1>4. /\ calls' \in Seq(Call) /\ Len(calls') = Len(calls) /\ DOMAIN calls' = DOMAIN calls
      /\ calls'[s] = k /\ \A t \in DOMAIN calls : t # s => calls'[t] = calls[t]
  BY <1>3, CallsTyped
<1>5. MessagesOK(toMain', calls')
  BY <1>1, <1>2, <1>4 DEF Linked, MessagesOK
<1>6. AnswersOK(toPage', calls')
  BY <1>1, <1>2, <1>4 DEF Linked, AnswersOK
<1>7. \A e \in Elements : [view[e] EXCEPT !.status = "error"] \in View /\ view[e] \in View
                          /\ [view[e] EXCEPT !.status = "error"].at = view[e].at
                          /\ [view[e] EXCEPT !.status = "error"].call = view[e].call
  BY CallsTyped DEF View
<1>8. /\ view' \in [Elements -> View]
      /\ \A e \in Elements : view'[e].at = view[e].at /\ view'[e].call = view[e].call
  BY <1>1, <1>7
<1>9. ViewsOK(view', calls')
  BY <1>4, <1>8 DEF Linked, ViewsOK
<1>10. FreshOK(requests', calls') /\ UnaskedOK(requests', calls')
  BY <1>2, <1>3, <1>4 DEF Linked, FreshOK, UnaskedOK, Early
<1>11. Linked'
  BY <1>2, <1>5, <1>6, <1>9, <1>10, LinkedNext DEF Linked
<1>12. spoiled' \subseteq Streams
  BY <1>1, CallsTyped DEF BridgeTypeOK
<1>13. BridgeTypeOK'
  BY <1>2, <1>4, <1>8, <1>12, MishapsCounted, TypesNext DEF BridgeTypeOK, EntriesOK
<1> QED
  BY <1>11, <1>13

\* stopStream for the streams of a set.
LEMMA StoppedKeeps ==
    ASSUME BridgeTypeOK, Linked, NEW ss, ss \subseteq Streams
    PROVE  /\ Stopped(ss) \in [Requests -> Request] /\ Without(ss) \in [Streams -> 0 .. 2]
           /\ EntriesOK(Without(ss), Stopped(ss))
           /\ FreshOK(Stopped(ss), calls) /\ UnaskedOK(Stopped(ss), calls) /\ PairsOK(Stopped(ss))
           /\ ReadOK(Stopped(ss), Without(ss), streams \ ss)
           /\ \A r \in Requests : r[1] \in ss => ~(Stopped(ss)[r].reader
                                                   /\ Stopped(ss)[r].at = "running")
<1> DEFINE rs == Stopped(ss) ps == Without(ss)
<1>1. ASSUME NEW r \in Requests
      PROVE  /\ rs[r] \in Request /\ rs[r].reader = requests[r].reader
             /\ rs[r].at = IF r[1] \in ss /\ processes[r[1]] = r[2] /\ requests[r].at = "running"
                           THEN "ended" ELSE requests[r].at
  <2>1. requests[r] \in Request
    BY CallsTyped
  <2>2. rs[r] = IF r[1] \in ss /\ processes[r[1]] = r[2] /\ requests[r].at = "running"
                THEN [requests[r] EXCEPT !.at = "ended"] ELSE requests[r]
    BY DEF Stopped
  <2> QED
    BY <2>1, <2>2 DEF Request
<1>2. rs \in [Requests -> Request]
  <2>1. rs = [r \in Requests |-> rs[r]]
    BY DEF Stopped
  <2> HIDE DEF rs
  <2> QED
    BY <1>1, <2>1
<1>3. ps \in [Streams -> 0 .. 2] /\ \A s \in Streams : ps[s] = IF s \in ss THEN 0 ELSE processes[s]
  BY CallsTyped DEF Without
<1> HIDE DEF rs, ps
<1>4. \A s \in Streams, n \in {1, 2} :
         /\ rs[<<s, n>>].reader = requests[<<s, n>>].reader
         /\ \/ rs[<<s, n>>].at = requests[<<s, n>>].at
            \/ s \in ss /\ requests[<<s, n>>].at = "running" /\ rs[<<s, n>>].at = "ended"
  <2> TAKE s \in Streams, n \in {1, 2}
  <2>1. <<s, n>> \in Requests /\ <<s, n>>[1] = s
    BY DEF Requests
  <2> QED
    BY <2>1, <1>1
<1>5. FreshOK(rs, calls) /\ UnaskedOK(rs, calls)
  BY <1>4 DEF Linked, FreshOK, UnaskedOK
<1>6. PairsOK(rs)
  BY <1>4 DEF Linked, PairsOK
<1>7. EntriesOK(ps, rs)
  <2> SUFFICES ASSUME NEW s \in Streams, ps[s] # 0
               PROVE  rs[<<s, ps[s]>>].at \in {"running", "ended"}
    BY DEF EntriesOK
  <2>1. ps[s] = processes[s] /\ s \notin ss
    BY <1>3
  <2>2. ps[s] \in {1, 2}
    BY <1>3
  <2>3. requests[<<s, ps[s]>>].at \in {"running", "ended"}
    BY <2>1 DEF BridgeTypeOK
  <2> QED
    BY <1>4, <2>1, <2>2, <2>3
<1>8. \A r \in Requests : r[1] \in ss => ~(rs[r].reader /\ rs[r].at = "running")
  BY <1>1 DEF Linked, ReadOK
<1>9. ReadOK(rs, ps, streams \ ss)
  <2> SUFFICES ASSUME NEW r \in Requests, rs[r].reader, rs[r].at = "running"
               PROVE  ps[r[1]] = r[2] /\ r[1] \in streams \ ss
    BY DEF ReadOK
  <2>1. r[1] \in Streams /\ r[1] \notin ss
    BY <1>8 DEF Requests
  <2>2. requests[r].reader /\ requests[r].at = "running"
    BY <1>1, <2>1
  <2> QED
    BY <2>1, <2>2, <1>3 DEF Linked, ReadOK
<1> QED
  BY <1>2, <1>3, <1>5, <1>6, <1>7, <1>8, <1>9 DEF rs, ps

StopSet(t) == {s \in streams : Camera(s) = Camera(t)}

LEMMA StopStep ==
    ASSUME BridgeTypeOK, Linked, HandleStop
    PROVE  /\ BridgeTypeOK' /\ Linked'
           /\ requests' = Stopped(StopSet(Head(toMain).call))
           /\ StopSet(Head(toMain).call) \subseteq Streams
<1> DEFINE t == Head(toMain).call
           ss == StopSet(t)
<1>1. /\ toMain # <<>> /\ toMain' = Tail(toMain)
      /\ streams' = streams \ ss /\ requests' = Stopped(ss) /\ processes' = Without(ss)
      /\ spoiled' = spoiled
               \union {s \in ss : IsCurrent(s) /\ calls[s].element # calls[t].element}
               \union {s \in {t} : calls[s].at = "opening"}
      /\ UNCHANGED <<server, calls, view, toPage, mishaps, up>>
  BY DEF HandleStop, StopSet
<1>2. MessagesOK(toMain', calls) /\ t \in Streams
  BY <1>1, MessageTaken, CallsTyped DEF Linked
<1>3. ss \subseteq streams
  BY DEF StopSet
<1> HIDE DEF t, ss
<1>4. ss \subseteq Streams
  BY <1>3, CallsTyped DEF BridgeTypeOK
<1>5. /\ requests' \in [Requests -> Request] /\ processes' \in [Streams -> 0 .. 2]
      /\ EntriesOK(processes', requests')
      /\ FreshOK(requests', calls') /\ UnaskedOK(requests', calls') /\ PairsOK(requests')
      /\ ReadOK(requests', processes', streams')
  BY <1>1, <1>4, StoppedKeeps
<1>6. Linked'
  BY <1>1, <1>2, <1>5, LinkedNext DEF Linked
<1>7. toMain' \in Seq(Message)
  BY <1>2 DEF MessagesOK
<1>8. spoiled' \subseteq Streams
  BY <1>1, <1>2, <1>4 DEF BridgeTypeOK
<1>9. streams' \subseteq 1 .. Len(calls')
  BY <1>1 DEF BridgeTypeOK
<1>10. BridgeTypeOK'
  BY <1>1, <1>5, <1>7, <1>8, <1>9, TypesNext DEF BridgeTypeOK
<1> QED
  BY <1>1, <1>4, <1>6, <1>10 DEF t, ss

LEMMA RequestStep ==
    ASSUME BridgeTypeOK, Linked, NEW r \in Requests, HandleRequest(r)
    PROVE  BridgeTypeOK' /\ Linked'
<1>1. PICK s \in Streams, n \in {1, 2} : r = <<s, n>>
  BY DEF Requests
<1>2. /\ requests[<<s, n>>].at = "asked" /\ (n = 2 => requests[<<s, 1>>].at # "asked")
      /\ UNCHANGED <<server, streams, calls, view, toMain, toPage, spoiled, mishaps, up>>
      /\ \/ /\ s \in streams
            /\ requests' = [requests EXCEPT ![<<s, n>>].at = "running"]
            /\ processes' = [processes EXCEPT ![s] = n]
         \/ /\ requests' = [requests EXCEPT ![<<s, n>>].at = "refused"]
            /\ UNCHANGED processes
  BY <1>1 DEF HandleRequest
<1>3. <<s, n>> \in Requests /\ requests[<<s, n>>] \in Request /\ requests \in [Requests -> Request]
      /\ processes \in [Streams -> 0 .. 2]
  BY CallsTyped DEF Requests
<1>4. processes[s] # n
  BY <1>2, <1>3 DEF BridgeTypeOK
<1>5. CASE /\ s \in streams
           /\ requests' = [requests EXCEPT ![<<s, n>>].at = "running"]
           /\ processes' = [processes EXCEPT ![s] = n]
  <2> DEFINE q == [requests[<<s, n>>] EXCEPT !.at = "running"]
  <2>1. /\ q \in Request /\ q.at = "running" /\ q.reader = requests[<<s, n>>].reader
        /\ requests' = [requests EXCEPT ![<<s, n>>] = q]
    BY <1>3, <1>5 DEF Request
  <2> HIDE DEF q
  <2>2. /\ processes' \in [Streams -> 0 .. 2] /\ processes'[s] = n
        /\ \A t \in Streams \ {s} : processes'[t] = processes[t]
    BY <1>3, <1>5
  <2>3. /\ spoiled' \subseteq Streams /\ mishaps' \in 0 .. MaxMishaps => BridgeTypeOK'
        /\ ReadOK(requests', processes', streams') => Linked'
    BY <1>2, <2>1, <2>2, RequestBecomes
  <2>4. ReadOK(requests', processes', streams')
    <3> SUFFICES ASSUME NEW x \in Requests, requests'[x].reader, requests'[x].at = "running"
                 PROVE  processes'[x[1]] = x[2] /\ x[1] \in streams'
      BY DEF ReadOK
    <3>1. PICK t \in Streams, m \in {1, 2} : x = <<t, m>>
      BY DEF Requests
    <3>2. CASE t = s /\ m = n
      BY <3>1, <3>2, <2>2, <1>2, <1>5
    <3>3. CASE t # s
      <4>1. requests'[x] = requests[x]
        BY <3>1, <3>3, <2>1, <1>3
      <4>2. processes[t] = m /\ t \in streams
        BY <4>1, <3>1 DEF Linked, ReadOK
      <4> QED
        BY <4>2, <3>1, <3>3, <2>2, <1>2
    <3>4. CASE t = s /\ m # n
      <4>1. requests'[x] = requests[x]
        BY <3>1, <3>4, <2>1, <1>3
      <4>2. requests[<<s, m>>].reader /\ requests[<<s, m>>].at = "running"
        BY <4>1, <3>1, <3>4
      <4> QED
        BY <4>2, <3>4, <1>2 DEF Linked, PairsOK
    <3> QED
      BY <3>2, <3>3, <3>4
  <2> QED
    BY <1>2, <2>3, <2>4 DEF BridgeTypeOK
<1>6. CASE requests' = [requests EXCEPT ![<<s, n>>].at = "refused"] /\ UNCHANGED processes
  <2> DEFINE q == [requests[<<s, n>>] EXCEPT !.at = "refused"]
  <2>1. /\ q \in Request /\ q.at = "refused" /\ q.reader = requests[<<s, n>>].reader
        /\ requests' = [requests EXCEPT ![<<s, n>>] = q]
    BY <1>3, <1>6 DEF Request
  <2> HIDE DEF q
  <2>2. /\ spoiled' \subseteq Streams /\ mishaps' \in 0 .. MaxMishaps => BridgeTypeOK'
        /\ ReadOK(requests', processes', streams') => Linked'
    BY <1>2, <1>3, <1>4, <1>6, <2>1, RequestBecomes
  <2>3. ReadOK(requests', processes', streams')
    BY <1>2, <1>3, <1>6, <2>1 DEF Linked, ReadOK
  <2> QED
    BY <1>2, <2>2, <2>3 DEF BridgeTypeOK
<1> QED
  BY <1>2, <1>5, <1>6

LEMMA CloseStep ==
    ASSUME BridgeTypeOK, Linked, NEW r \in Requests, Close(r)
    PROVE  BridgeTypeOK' /\ Linked'
<1>1. PICK s \in Streams, n \in {1, 2} : r = <<s, n>>
  BY DEF Requests
<1>2. /\ requests[<<s, n>>].at \in {"ended", "running"}
      /\ requests' = [requests EXCEPT ![<<s, n>>].at = "closed"]
      /\ processes' = [processes EXCEPT ![s] = IF @ = n THEN 0 ELSE @]
      /\ UNCHANGED <<server, streams, calls, view, toMain, toPage, spoiled, mishaps, up>>
  BY <1>1 DEF Close, Cleanup
<1>3. <<s, n>> \in Requests /\ requests[<<s, n>>] \in Request /\ requests \in [Requests -> Request]
      /\ processes \in [Streams -> 0 .. 2]
  BY CallsTyped DEF Requests
<1> DEFINE q == [requests[<<s, n>>] EXCEPT !.at = "closed"]
<1>4. /\ q \in Request /\ q.at = "closed" /\ q.reader = requests[<<s, n>>].reader
      /\ requests' = [requests EXCEPT ![<<s, n>>] = q]
  BY <1>2, <1>3 DEF Request
<1> HIDE DEF q
<1>5. /\ processes' \in [Streams -> 0 .. 2]
      /\ processes'[s] # 0 => processes'[s] # n /\ processes'[s] = processes[s]
      /\ processes[s] # n => processes'[s] = processes[s]
      /\ \A t \in Streams \ {s} : processes'[t] = processes[t]
  BY <1>2, <1>3
<1>6. /\ spoiled' \subseteq Streams /\ mishaps' \in 0 .. MaxMishaps => BridgeTypeOK'
      /\ ReadOK(requests', processes', streams') => Linked'
  BY <1>2, <1>4, <1>5, RequestBecomes
<1>7. ReadOK(requests', processes', streams')
  <2> SUFFICES ASSUME NEW x \in Requests, requests'[x].reader, requests'[x].at = "running"
               PROVE  processes'[x[1]] = x[2] /\ x[1] \in streams'
    BY DEF ReadOK
  <2>1. PICK t \in Streams, m \in {1, 2} : x = <<t, m>>
    BY DEF Requests
  <2>2. x # <<s, n>>
    BY <1>3, <1>4
  <2>3. requests'[x] = requests[x]
    BY <1>3, <1>4, <2>2
  <2>4. processes[t] = m /\ t \in streams
    BY <2>1, <2>3 DEF Linked, ReadOK
  <2>5. t = s => processes[s] # n
    BY <2>1, <2>2, <2>4
  <2> QED
    BY <1>2, <1>5, <2>1, <2>4, <2>5
<1> QED
  BY <1>2, <1>6, <1>7 DEF BridgeTypeOK

LEMMA ExitStep ==
    ASSUME BridgeTypeOK, Linked, NEW r \in Requests, Exit(r)
    PROVE  BridgeTypeOK' /\ Linked'
<1>1. PICK s \in Streams, n \in {1, 2} : r = <<s, n>>
  BY DEF Requests
<1>2. /\ Mishap /\ requests[<<s, n>>].at = "running"
      /\ requests' = [requests EXCEPT ![<<s, n>>].at = "ended"]
      /\ spoiled' = spoiled \union {s}
      /\ UNCHANGED <<server, streams, processes, calls, view, toMain, toPage, up>>
  BY <1>1 DEF Exit
<1>3. <<s, n>> \in Requests /\ requests[<<s, n>>] \in Request /\ requests \in [Requests -> Request]
      /\ processes \in [Streams -> 0 .. 2]
  BY CallsTyped DEF Requests
<1> DEFINE q == [requests[<<s, n>>] EXCEPT !.at = "ended"]
<1>4. /\ q \in Request /\ q.at = "ended" /\ q.reader = requests[<<s, n>>].reader
      /\ requests' = [requests EXCEPT ![<<s, n>>] = q]
  BY <1>2, <1>3 DEF Request
<1> HIDE DEF q
<1>5. /\ spoiled' \subseteq Streams /\ mishaps' \in 0 .. MaxMishaps => BridgeTypeOK'
      /\ ReadOK(requests', processes', streams') => Linked'
  BY <1>2, <1>3, <1>4, RequestBecomes
<1>6. ReadOK(requests', processes', streams')
  BY <1>2, <1>3, <1>4 DEF Linked, ReadOK
<1>7. spoiled' \subseteq Streams
  BY <1>2 DEF BridgeTypeOK
<1> QED
  BY <1>2, <1>5, <1>6, <1>7, MishapsCounted

LEMMA QuitStep ==
    ASSUME BridgeTypeOK, Linked, Quit
    PROVE  BridgeTypeOK' /\ ~up' /\ requests' = Stopped(Streams)
<1>1. /\ requests' = Stopped(Streams) /\ processes' = Without(Streams)
      /\ streams' = {} /\ server' = "none" /\ calls' = <<>> /\ toMain' = <<>> /\ toPage' = <<>>
      /\ view' = Nothing /\ spoiled' = {} /\ up' = FALSE /\ mishaps' = mishaps
  BY DEF Quit
<1>2. /\ requests' \in [Requests -> Request] /\ processes' \in [Streams -> 0 .. 2]
      /\ EntriesOK(processes', requests')
  BY <1>1, StoppedKeeps
<1>3. Nothing \in [Elements -> View]
  BY ZeroIsCall DEF Nothing, View
<1>4. /\ calls' \in Seq(Call) /\ Len(calls') <= MaxCalls /\ streams' \subseteq 1 .. Len(calls')
      /\ toMain' \in Seq(Message) /\ toPage' \in Seq(Streams)
  BY <1>1, BridgeAssumption
<1> QED
  BY <1>1, <1>2, <1>3, <1>4, TypesNext DEF BridgeTypeOK

LEMMA BridgeInitially == BridgeInit => BridgeInv
<1> SUFFICES ASSUME BridgeInit PROVE BridgeInv
  OBVIOUS
<1>1. Nothing \in [Elements -> View] /\ \A e \in Elements : Nothing[e].at = "new"
  BY ZeroIsCall DEF Nothing, View
<1>2. /\ calls \in Seq(Call) /\ Len(calls) <= MaxCalls /\ streams \subseteq 1 .. Len(calls)
      /\ toMain \in Seq(Message) /\ toPage \in Seq(Streams) /\ mishaps \in 0 .. MaxMishaps
      /\ processes \in [Streams -> 0 .. 2] /\ \A s \in Streams : processes[s] = 0
  BY BridgeAssumption DEF BridgeInit
<1>3. /\ requests \in [Requests -> Request]
      /\ \A s \in Streams, n \in {1, 2} : requests[<<s, n>>] = [at |-> "none", reader |-> FALSE]
      /\ \A r \in Requests : requests[r].at = "none"
  BY DEF BridgeInit, Request, Requests
<1>4. BridgeTypeOK
  BY <1>1, <1>2, <1>3 DEF BridgeInit, BridgeTypeOK
<1>5. MessagesOK(toMain, calls) /\ AnswersOK(toPage, calls)
  BY <1>2 DEF BridgeInit, MessagesOK, AnswersOK
<1>6. ViewsOK(view, calls)
  BY <1>1 DEF BridgeInit, ViewsOK
<1>7. FreshOK(requests, calls) /\ UnaskedOK(requests, calls) /\ PairsOK(requests)
  BY <1>3 DEF FreshOK, UnaskedOK, PairsOK
<1>8. ReadOK(requests, processes, streams)
  BY <1>3 DEF ReadOK
<1> QED
  BY <1>4, <1>5, <1>6, <1>7, <1>8 DEF BridgeInv, Linked

LEMMA BridgeInduction == BridgeInv /\ [BridgeNext]_bridgeVars => BridgeInv'
<1> SUFFICES ASSUME BridgeInv, [BridgeNext]_bridgeVars PROVE BridgeInv'
  OBVIOUS
<1>1. CASE UNCHANGED bridgeVars
  BY <1>1 DEF bridgeVars, BridgeInv, BridgeTypeOK, Linked, MessagesOK, AnswersOK, ViewsOK, FreshOK,
     UnaskedOK,
              PairsOK, ReadOK
<1>2. CASE BridgeNext
  <2>1. up /\ BridgeTypeOK /\ Linked
    BY <1>2 DEF BridgeNext, BridgeInv
  <2>2. CASE Views
    BY <2>1, <2>2, MountStep, ChangeStep, UnmountStep, PageStep, ReceiveStep, AskStep, SettleStep
       DEF Views, Plays, PlayFails, BridgeInv
  <2>3. CASE Main
    BY <2>1, <2>3, StartStep, StopStep, ListenStep, ListenFailsStep, RequestStep, CloseStep,
       ExitStep
       DEF Main, BridgeInv
  <2>4. CASE Quit
    BY <2>1, <2>4, QuitStep DEF BridgeInv
  <2> QED
    BY <1>2, <2>2, <2>3, <2>4 DEF BridgeNext
<1> QED
  BY <1>1, <1>2

\* While the player runs, a call has at most one message and one answer under way, an
\* element asks a second time only when it no longer reads the first answer, and an
\* ffmpeg whose answer is read is in the map of processes and its stream is registered.
THEOREM BridgeInvariance == BridgeSpec => []BridgeInv
BY BridgeInitially, BridgeInduction, PTL DEF BridgeSpec

\* What the main process, the page and the messages between them hold has its type.
THEOREM BridgeTypeCorrect == BridgeSpec => []BridgeTypeOK
<1>1. BridgeInv => BridgeTypeOK
  BY DEF BridgeInv
<1> QED
  BY <1>1, BridgeInvariance, PTL

LEMMA LongerIsNotTail ==
    ASSUME NEW q \in Seq(Message), q # <<>>, NEW x \in Message, NEW y \in Message
    PROVE  Append(q, x) # Tail(q) /\ Append(Append(q, x), y) # Tail(q)
<1> DEFINE p == Append(q, x) t == Tail(q)
<1>1. PICK n \in Nat : n = Len(q)
  BY LenProperties
<1>2. p \in Seq(Message) /\ Len(p) = n + 1
  BY <1>1, AppendProperties
<1>3. Len(t) = n - 1
  BY <1>1
<1> HIDE DEF p, t
<1>4. Len(Append(p, y)) = n + 2
  BY <1>2, AppendProperties
<1>5. n + 1 # n - 1 /\ n + 2 # n - 1
  OBVIOUS
<1> QED
  BY <1>2, <1>3, <1>4, <1>5, Zenon DEF p, t

\* The step of StopsAreComplete: a step that takes a stop from the queue is HandleStop.
LEMMA OnlyStop ==
    ASSUME BridgeTypeOK, Linked, BridgeNext, toMain # <<>>, Head(toMain).type = "stop",
           toMain' = Tail(toMain)
    PROVE  HandleStop \/ Quit
<1>1. toMain \in Seq(Message) /\ Tail(toMain) # toMain
  BY Popped DEF BridgeTypeOK
<1>2. ASSUME NEW e \in Elements, NEW c \in Cameras, Mount(e, c) PROVE FALSE
  <2>1. toMain' = toMain \o Append(<<>>, StartOf(Len(calls) + 1)) /\ Len(calls) + 1 \in Streams
    BY <1>2 DEF Mount, Connect
  <2>2. StartOf(Len(calls) + 1) \in Message
    BY <2>1 DEF StartOf, Message
  <2>3. toMain' = Append(toMain, StartOf(Len(calls) + 1))
    BY <1>1, <2>1, <2>2, JoinOne
  <2> QED
    BY <1>1, <2>2, <2>3, LongerIsNotTail
<1>3. ASSUME NEW e \in Elements, NEW c \in Cameras, ChangeCamera(e, c) PROVE FALSE
  <2>1. /\ toMain' = toMain \o Append(<<StopOf(e)>>, StartOf(Len(calls) + 1))
        /\ Len(calls) + 1 \in Streams /\ Mounted(e)
    BY <1>3 DEF ChangeCamera, Connect
  <2>2. StartOf(Len(calls) + 1) \in Message /\ StopOf(e) \in Message
    BY <2>1, CallsTyped DEF StartOf, StopOf, Message, Mounted, Linked, ViewsOK
  <2>3. toMain' = Append(Append(toMain, StopOf(e)), StartOf(Len(calls) + 1))
    BY <1>1, <2>1, <2>2, JoinTwo
  <2> QED
    BY <1>1, <2>2, <2>3, LongerIsNotTail
<1>4. ASSUME NEW e \in Elements, Unmount(e) PROVE FALSE
  <2>1. toMain' = Append(toMain, StopOf(e)) /\ Mounted(e)
    BY <1>4 DEF Unmount
  <2>2. StopOf(e) \in Message
    BY <2>1, CallsTyped DEF StopOf, Message, Mounted, Linked, ViewsOK
  <2> QED
    BY <1>1, <2>1, <2>2, LongerIsNotTail
<1>5. ASSUME NEW s \in DOMAIN calls, AskAgain(s) \/ Plays(s) \/ PlayFails(s) PROVE FALSE
  BY <1>1, <1>5 DEF AskAgain, Plays, PlayFails, PlaySettles
<1>6. CASE LosePage \/ ReceiveAnswer \/ Listening \/ ListenFails
  BY <1>1, <1>6 DEF LosePage, ReceiveAnswer, Listening, ListenFails
<1>7. ASSUME NEW r \in Requests, HandleRequest(r) \/ Close(r) \/ Exit(r) PROVE FALSE
  BY <1>1, <1>7 DEF HandleRequest, Close, Exit
<1>8. ~HandleStart
  BY DEF HandleStart
<1> QED
  BY <1>2, <1>3, <1>4, <1>5, <1>6, <1>7, <1>8 DEF BridgeNext, Views, Main

LEMMA StopsReach == BridgeInv /\ [BridgeNext]_bridgeVars
   => [\A r \in Requests : StopReaches(r)]_bridgeVars
<1> SUFFICES ASSUME BridgeInv, BridgeNext, NEW r \in Requests, requests[r].reader,
                    requests[r].at = "running",
                    \/ up /\ ~up'
                    \/ /\ toMain # <<>> /\ Head(toMain).type = "stop" /\ toMain' = Tail(toMain)
                       /\ Camera(Head(toMain).call) = Camera(r[1])
             PROVE  requests'[r].at # "running"
  BY DEF StopReaches
<1>1. BridgeTypeOK /\ Linked
  BY DEF BridgeNext, BridgeInv
<1>2. r[1] \in streams /\ r[1] \in Streams
  BY <1>1 DEF Linked, ReadOK, Requests
<1>3. ASSUME NEW ss, ss \subseteq Streams, r[1] \in ss, requests' = Stopped(ss)
      PROVE  requests'[r].at # "running"
  <2>1. ~(requests'[r].reader /\ requests'[r].at = "running")
    BY <1>1, <1>3, StoppedKeeps
  <2>2. requests'[r].reader
    <3>1. requests[r] \in Request
      BY <1>1, CallsTyped
    <3>2. requests'[r] \in {requests[r], [requests[r] EXCEPT !.at = "ended"]}
      BY <1>3 DEF Stopped
    <3> QED
      BY <3>1, <3>2 DEF Request
  <2> QED
    BY <2>1, <2>2
<1>4. CASE Quit
  BY <1>1, <1>2, <1>3, <1>4, QuitStep
<1>5. CASE ~Quit
  <2>1. UNCHANGED up
    BY <1>5 DEF BridgeNext, Views, Main, Mount, ChangeCamera, Unmount, AskAgain, Plays, PlayFails,
                PlaySettles, LosePage, ReceiveAnswer, HandleStart, HandleStop, Listening,
                ListenFails, HandleRequest, Close, Exit
  <2>2. HandleStop /\ Camera(Head(toMain).call) = Camera(r[1])
    BY <1>1, <1>5, <2>1, OnlyStop
  <2>3. r[1] \in StopSet(Head(toMain).call)
    BY <1>2, <2>2 DEF StopSet
  <2> QED
    BY <1>1, <1>3, <2>2, <2>3, StopStep
<1> QED
  BY <1>4, <1>5

\* When the main process handles a stop of a camera (stopByUrl), or quits (stopAll), every
\* ffmpeg of that camera whose answer an element reads ends with the step.
THEOREM StopsStayComplete == BridgeSpec => StopsAreComplete
BY BridgeInvariance, StopsReach, PTL DEF BridgeSpec, StopsAreComplete
=============================================================================
