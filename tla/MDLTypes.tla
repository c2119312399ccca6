------------------------------ MODULE MDLTypes ------------------------------
(***************************************************************************)
(* Lock types, durations and the compatibility matrices of the metadata    *)
(* locking subsystem (sql/mdl.h, sql/mdl.cc).  A bitmap_t is a set of      *)
(* types; MDL_BIT(A) is {A}.                                               *)
(***************************************************************************)
EXTENDS Naturals

\* enum_mdl_type, without the MDL_ prefix
LockTypes == {"IX", "S", "SH", "SR", "SW", "SU", "SRO", "SNW", "SNRW", "X"}

\* enum_mdl_duration: MDL_STATEMENT, MDL_TRANSACTION, MDL_EXPLICIT
STATEMENT == 0
TRANSACTION == 1
EXPLICIT == 2
Durations == {STATEMENT, TRANSACTION, EXPLICIT}

\* MDL_wait::enum_wait_status
WaitStatus == {"EMPTY", "GRANTED", "VICTIM", "TIMEOUT", "KILLED"}

\* MDL_scoped_lock::m_granted_incompatible[y]: the granted types a request of
\* type y cannot coexist with
ScopedGrantedIncompat(y) ==
    CASE y = "IX" -> {"X", "S"}
      [] y = "S"  -> {"X", "IX"}
      [] y = "X"  -> {"X", "S", "IX"}
      [] OTHER    -> {}

\* MDL_scoped_lock::m_waiting_incompatible[y]: the waiting types that have
\* priority over a request of type y
ScopedWaitingIncompat(y) ==
    CASE y = "IX" -> {"X", "S"}
      [] y = "S"  -> {"X"}
      [] OTHER    -> {}

\* MDL_object_lock::m_granted_incompatible[y]
ObjectGrantedIncompat(y) ==
    CASE y \in {"S", "SH"} -> {"X"}
      [] y = "SR"   -> {"X", "SNRW"}
      [] y = "SW"   -> {"X", "SNRW", "SNW", "SRO"}
      [] y = "SU"   -> {"X", "SNRW", "SNW", "SU"}
      [] y = "SRO"  -> {"X", "SNRW", "SW"}
      [] y = "SNW"  -> {"X", "SNRW", "SNW", "SU", "SW"}
      [] y = "SNRW" -> {"X", "SNRW", "SNW", "SRO", "SU", "SW", "SR"}
      [] y = "X"    -> {"X", "SNRW", "SNW", "SRO", "SU", "SW", "SR", "SH", "S"}
      [] OTHER      -> {}

\* MDL_object_lock::m_waiting_incompatible[y]
ObjectWaitingIncompat(y) ==
    CASE y = "SR"  -> {"X", "SNRW"}
      [] y = "SW"  -> {"X", "SNRW", "SNW"}
      [] y = "SRO" -> {"X", "SNRW", "SW"}
      [] y \in {"S", "SU", "SNW", "SNRW"} -> {"X"}
      [] OTHER     -> {}

\* MDL_object_lock::hog_lock_types_bitmap(); the scoped strategy returns 0
ObjectHogTypes == {"SNW", "SNRW", "X"}

\* The types of MDL_ticket::get_deadlock_weight(): m_type >= SHARED_UPGRADABLE
DdlTypes == {"SU", "SRO", "SNW", "SNRW", "X"}

\* upgrade_shared_lock() as its callers use it: LOCK TABLES (SR -> SRO,
\* SW -> SNRW), ALTER TABLE and partitioning (SU -> SNW), and the final
\* wait_while_table_is_used() upgrade to X
UpgradePairs ==
    {<<"SR", "SRO">>, <<"SW", "SNRW">>, <<"SU", "SNW">>,
     <<"SU", "X">>, <<"SNW", "X">>, <<"SNRW", "X">>}

\* downgrade_lock() as its callers use it; the assertion allows X and SNW only
DowngradePairs ==
    {<<"X", "SNRW">>, <<"X", "SR">>, <<"X", "SNW">>, <<"X", "SU">>,
     <<"SNW", "SU">>}
=============================================================================
