---------------------------- MODULE MCBasicWidget ----------------------------
(***************************************************************************)
(* Two property dialogs over two images (one whose size neither source    *)
(* gives), a video and an audio file without a duration in their          *)
(* properties, a folder and a plain file; filters hide nothing or the      *)
(* count.                                                                  *)
(***************************************************************************)
EXTENDS BasicWidget

MCKind == [u \in {"img1", "img2", "vid", "aud", "dir", "txt"} |->
             CASE u \in {"img1", "img2"} -> "image"
               [] u = "vid" -> "video"
               [] u = "aud" -> "audio"
               [] u = "dir" -> "dir"
               [] OTHER     -> "other"]

MCDims == [u \in DOMAIN MCKind |-> u # "img2"]

MCDurIn == [u \in DOMAIN MCKind |-> FALSE]

MCHasProps == [u \in DOMAIN MCKind |-> TRUE]

MCFilters == {{}, {"count"}}

=============================================================================
