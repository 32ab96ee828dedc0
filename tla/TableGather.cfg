SPECIFICATION Spec
CONSTANTS
  NULL = NULL
  Kinds = {"pat", "cat", "pmt", "rst", "sdt", "nit", "bat", "eit", "tot", "sis", "atsc_eit", "atsc_ett", "atsc_mgt", "atsc_stt", "atsc_vct"}
  Changing = {1}
  MaxChanges = 1
  MaxLosses = 1
  MaxDetached = 1
INVARIANT WholeTable
INVARIANT DeliveredOnce
PROPERTY BecomesCurrent
CHECK_DEADLOCK FALSE
