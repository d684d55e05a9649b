----------------------------- MODULE MCWorkloads -----------------------------
(* Constants for the model checking of Workloads: thread sets of              *)
(* threadset_table, in its order.                                             *)
EXTENDS Workloads

COUNTER_RACE_DOUBLE == <<"setValue", "setValue">>
COUNTER_SAFE_DOUBLE == <<"setValue_safe", "setValue_safe">>
COUNTER_MIXED == <<"setValue_safe", "setValue">>
READ_RACE_DOUBLE == <<"readValue", "readValue">>
RMW_RACE_DOUBLE == <<"readModifyWrite", "readModifyWrite">>
RMW_SAFE_DOUBLE == <<"readModifyWrite_safe", "readModifyWrite_safe">>
RMW_HB_DOUBLE == <<"readModifyWrite_first", "readModifyWrite_second">>
RMW_HB_FAKE == <<"readModifyWrite_first", "readModifyWrite_foolhb">>
MAILMAN == <<"mailman", "mail_customer">>

Faults == {"timeout", "create"}
Runs(sets, cycles, faults) == [sets |-> sets, CYCLE_COUNT |-> cycles, faults |-> faults]

SafeSets == Runs(<<COUNTER_SAFE_DOUBLE, RMW_SAFE_DOUBLE>>, 1, Faults)
CancelledSets == Runs(<<RMW_SAFE_DOUBLE, RMW_HB_DOUBLE>>, 1, Faults)
OrderedSets ==
  Runs(<<RMW_RACE_DOUBLE, RMW_SAFE_DOUBLE, RMW_HB_DOUBLE, RMW_HB_FAKE>>, 2, {})
RacySets ==
  Runs(<<<<"empty">>, COUNTER_RACE_DOUBLE, COUNTER_MIXED, READ_RACE_DOUBLE, MAILMAN>>, 1, {})

MCPrograms == {SafeSets, CancelledSets, OrderedSets, RacySets}
=============================================================================
