-------------------------- MODULE MCTransformStack --------------------------
(* Instances of TransformStack for TLC.                                    *)
EXTENDS TransformStack

\* The stacks the negotiated flags may select: LZO with AES-GCM, each
\* alone, and LZO with the legacy cipher.
Profiles == {{Lzo, Encrypt}, {Encrypt}, {Lzo}, {Lzo, Legacy}}
=============================================================================
