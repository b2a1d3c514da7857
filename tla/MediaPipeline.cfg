SPECIFICATION Spec
CHECK_DEADLOCK FALSE
CONSTANTS
    image = image
    video = video
    Assets = {image, video}
    Kinds <- Uploads
    MaxFaults = 3
INVARIANTS
    TypeOK
    RowsAndFilesAgree
PROPERTIES
    UploadsAreProcessed
