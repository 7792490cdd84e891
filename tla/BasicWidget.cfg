\* Two dialogs: the media answer for one dialog's file reaches the other.
CONSTANTS
    Widgets = {w1, w2}
    Urls = {"img1", "img2", "vid", "aud", "dir", "txt"}
    Kind <- MCKind
    Dims <- MCDims
    DurIn <- MCDurIn
    HasProps <- MCHasProps
    Filters <- MCFilters
    NoUrl = NoUrl
    Placeholder = Placeholder
SPECIFICATION Spec
PROPERTY ResolutionStaysShown
