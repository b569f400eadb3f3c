-------------------------- MODULE MCBandwidthKernel --------------------------
(* Instances of BandwidthKernel for TLC: the kernels' real block sizes, with *)
(* small arrays and few iterations.                                          *)
EXTENDS BandwidthKernel
=============================================================================
