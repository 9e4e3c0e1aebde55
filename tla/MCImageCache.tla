----------------------------- MODULE MCImageCache -----------------------------
EXTENDS ImageCacheSpec, TLC

CONSTANTS cover, photo, scan, icon, w1, w2

MCBytes == (cover :> 1) @@ (photo :> 2) @@ (scan :> 1) @@ (icon :> 1)

=============================================================================
