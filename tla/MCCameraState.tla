--------------------------- MODULE MCCameraState ---------------------------
(* CameraState for TLC: two interchangeable callers.                        *)
EXTENDS CameraState, TLC

CallerSymmetry == Permutations(Callers)
=============================================================================
