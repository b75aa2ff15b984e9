--------------------------- MODULE QcedevBandwidth ---------------------------
(***************************************************************************)
(* The bandwidth vote of qcedev (qcedev.c): high_bw_req_count, guarded by *)
(* the qcedev_sent_bw_req mutex, counts the open handles; the first open   *)
(* switches the engine clocks on and votes for bus bandwidth, the last     *)
(* release switches them off, and suspend and resume switch them while    *)
(* the count is non-zero.  qcedev_control_clocks does the switching in two *)
(* calls and undoes the first when the second fails.                       *)
(*                                                                         *)
(* qce_enable_clk, qce_disable_clk and icc_set_bw are outside src/; they   *)
(* are modelled by their contract: the clock has an enable count, and a    *)
(* disable of a clock that is not enabled is an unbalanced disable (the    *)
(* clock framework warns and leaves it at 0); the bus vote is high or     *)
(* zero; a call that fails changes nothing.  Every operation runs under    *)
(* the mutex, so each is one step.                                         *)
(***************************************************************************)
EXTENDS Integers, FiniteSets

CONSTANTS
  Handles,         \* the files user space may open
  FailCalls,       \* which calls of qcedev_control_clocks may fail:
                   \* "first", "second" or "undo" (the rollback)
  CountBound       \* bound on |high_bw_req_count| and on the clock count

ASSUME FailCalls \subseteq {"first", "second", "undo"}

VARIABLES
  req_bw_before_clk,  \* ce_support.req_bw_before_clk, read at probe
  high_bw_req_count,  \* podev->high_bw_req_count
  clk,                \* enable count of the engine clocks
  bw,                 \* the interconnect vote: "high" or "zero"
  opened,             \* handles whose qcedev_open has run
  suspended,          \* between qcedev_suspend and qcedev_resume
  unbalanced,         \* a disable found the clock off (history)
  errored             \* qcedev_control_clocks has returned an error (history)

vars == <<req_bw_before_clk, high_bw_req_count, clk, bw, opened, suspended, unbalanced,
         errored>>

ApplyNoFloor(call, s) ==
  CASE call \in {"clk_on", "clk_off"}
         -> [s EXCEPT !.clk = IF call = "clk_on" THEN @ + 1 ELSE @ - 1]
    [] call = "bw_high" -> [s EXCEPT !.bw = "high"]
    [] call = "bw_zero" -> [s EXCEPT !.bw = "zero"]

\* One call into the clock or interconnect driver, when it succeeds.
Apply(call, s) ==
  CASE call = "clk_on"  -> [s EXCEPT !.clk = @ + 1]
    [] call = "clk_off" -> IF s.clk = 0 THEN [s EXCEPT !.unbalanced = TRUE]
                           ELSE [s EXCEPT !.clk = @ - 1]
    [] call = "bw_high" -> [s EXCEPT !.bw = "high"]
    [] call = "bw_zero" -> [s EXCEPT !.bw = "zero"]

\* The control_flag switch: the two calls in order and the call that undoes
\* the first.
Order(enable) ==
  CASE enable /\ req_bw_before_clk  -> <<"bw_high", "clk_on", "bw_zero">>  \* QCE_BW_REQUEST_FIRST
    [] enable /\ ~req_bw_before_clk -> <<"clk_on", "bw_high", "clk_off">>  \* QCE_CLK_ENABLE_FIRST
    [] req_bw_before_clk            -> <<"clk_off", "bw_zero", "clk_on">>  \* QCE_CLK_DISABLE_FIRST
    [] OTHER                        -> <<"bw_zero", "clk_off", "bw_high">> \* QCE_BW_REQUEST_RESET_FIRST

\* The outcomes of qcedev_control_clocks from s: the new hardware state and
\* the value it returns (0, or -1 for an error code).  When the second call fails the
\* function returns the undo call's own result, so a successful undo
\* returns 0.
ControlClocks(enable, s) ==
  LET o == Order(enable)
      s1 == Apply(o[1], s)
      Fails(c) == c \in FailCalls
  IN  {[hw |-> Apply(o[2], s1), ret |-> 0]}
      \cup (IF Fails("first") THEN {[hw |-> s, ret |-> -1]} ELSE {})
      \cup (IF Fails("second") THEN {[hw |-> Apply(o[3], s1), ret |-> 0]} ELSE {})
      \cup (IF Fails("second") /\ Fails("undo")
            THEN {[hw |-> s1, ret |-> -1]} ELSE {})

HwNow == [clk |-> clk, bw |-> bw, unbalanced |-> unbalanced]

\* The effect of one qcedev_control_clocks outcome o.
Switched(o) ==
  /\ clk' = o.hw.clk /\ bw' = o.hw.bw /\ unbalanced' = o.hw.unbalanced
  /\ errored' = (errored \/ o.ret # 0)

\* qcedev_ce_high_bw_req: the first vote switches on, the last switches
\* off; on an error the count is left alone and nobody is told.
HighBwReq(high) ==
  LET edge == IF high THEN high_bw_req_count = 0 ELSE high_bw_req_count = 1
      delta == IF high THEN 1 ELSE -1
  IN  IF edge
      THEN \E o \in ControlClocks(high, HwNow) :
             /\ Switched(o)
             /\ high_bw_req_count' = IF o.ret = 0 THEN high_bw_req_count + delta
                                     ELSE high_bw_req_count
      ELSE /\ high_bw_req_count' = high_bw_req_count + delta
           /\ UNCHANGED <<clk, bw, unbalanced, errored>>

\* Bounds of the model: open and release wait when the count is at
\* CountBound, and suspend when the clock enable count is (each failed
\* suspend and the resume after it enable the clock once more).
CountBelow == high_bw_req_count < CountBound
CountAbove == -CountBound < high_bw_req_count
ClkBelow == clk < CountBound

\* qcedev_open: it votes, and returns 0 whatever the vote did (a failed
\* kzalloc returns before the vote and changes nothing).  User tasks
\* are frozen while the device is suspended.
Open(h) ==
  /\ CountBelow /\ ~suspended /\ h \notin opened
  /\ opened' = opened \cup {h}
  /\ HighBwReq(TRUE)
  /\ UNCHANGED <<req_bw_before_clk, suspended>>

\* qcedev_release: it withdraws the vote and frees the handle.
Release(h) ==
  /\ CountAbove /\ ~suspended /\ h \in opened
  /\ opened' = opened \ {h}
  /\ HighBwReq(FALSE)
  /\ UNCHANGED <<req_bw_before_clk, suspended>>

\* qcedev_suspend and qcedev_resume: switch when the count is non-zero,
\* ignore the result, return 0.
SwitchAlways(enable) ==
  \E o \in ControlClocks(enable, HwNow) : Switched(o)

Switch(enable) ==
  IF high_bw_req_count # 0
  THEN \E o \in ControlClocks(enable, HwNow) : Switched(o)
  ELSE UNCHANGED <<clk, bw, unbalanced, errored>>

Suspend ==
  /\ ClkBelow /\ ~suspended
  /\ Switch(FALSE) /\ suspended' = TRUE
  /\ UNCHANGED <<req_bw_before_clk, high_bw_req_count, opened>>

Resume ==
  /\ suspended
  /\ Switch(TRUE) /\ suspended' = FALSE
  /\ UNCHANGED <<req_bw_before_clk, high_bw_req_count, opened>>

\* qcedev_probe_device: count 0, clocks off, no vote, on an engine of
\* either kind.
Init ==
  /\ req_bw_before_clk \in BOOLEAN
  /\ high_bw_req_count = 0 /\ clk = 0 /\ bw = "zero"
  /\ opened = {} /\ suspended = FALSE /\ unbalanced = FALSE
  /\ errored = FALSE

Next ==
  \/ \E h \in Handles : Open(h) \/ Release(h)
  \/ Suspend \/ Resume

Spec == Init /\ [][Next]_vars

-----------------------------------------------------------------------------

TypeOK ==
  /\ req_bw_before_clk \in BOOLEAN
  /\ high_bw_req_count \in Int /\ clk \in Nat /\ bw \in {"high", "zero"}
  /\ opened \subseteq Handles /\ suspended \in BOOLEAN /\ unbalanced \in BOOLEAN
  /\ errored \in BOOLEAN

\* The clock enables and disables of open, release, suspend and resume
\* pair up: qce_disable_clk is never called on a clock that is off.
NoUnbalancedDisable == ~unbalanced

\* As long as qcedev_control_clocks has returned no error,
\* high_bw_req_count is the number of open handles, and the clock (enabled
\* exactly once) and the bus vote are on exactly while a handle is open
\* and the device is not suspended: qcedev_ce_high_bw_req counts a vote
\* whenever qcedev_control_clocks returns 0.
ClocksFollowVotes ==
  LET on == opened # {} /\ ~suspended
  IN  ~errored =>
      /\ high_bw_req_count = Cardinality(opened)
      /\ clk = IF on THEN 1 ELSE 0
      /\ (bw = "high") = on
====
