----------------------------- MODULE MCSndShDac -----------------------------
(* Small buffers for TLC: <<buffer_size, period_size>>.  Three periods is   *)
(* the smallest number with which a stream that is started late, when the   *)
(* handler has left the first period, takes hw_ptr back.                    *)
EXTENDS SndShDac

ThreePeriods == {<<6, 2>>}

(* A buffer that may be made smaller, to two periods.                       *)
TwoSizes == {<<6, 2>>, <<4, 2>>}
=============================================================================
