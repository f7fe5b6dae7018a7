------------------------------ MODULE MCDispatch ------------------------------
(***************************************************************************)
(* Dispatch on the five kinds of x86_64 processor the tables tell apart,    *)
(* and one with AVX-512F but not AVX-512BW (Xeon Phi).                      *)
(***************************************************************************)
EXTENDS Dispatch

SSE2 == {"sse2"}
SSE41 == SSE2 \union {"sse4.1"}
SSE42 == SSE41 \union {"sse4.2"}
AVX2 == SSE42 \union {"avx2"}
KNL == AVX2 \union {"avx512f"}
AVX512 == KNL \union {"avx512bw"}

MCCpuSets == {SSE2, SSE41, SSE42, AVX2, KNL, AVX512}
==============================================================================
