----------------------------- MODULE MCConnPool -----------------------------
(* Instances of ConnPool for TLC.                                            *)
EXTENDS ConnPool

(* A setting that does not fit in its integers, of eight values here, and    *)
(* wraps to zero: the pools fall back on their default size.                 *)
WrappedSetting == 8
=============================================================================
