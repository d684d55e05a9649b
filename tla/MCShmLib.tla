------------------------------ MODULE MCShmLib ------------------------------
(* Constants for the model checking of ShmLib: the accesses of the client    *)
(* functions of shm_racer, on a shared structure of two bytes.               *)
EXTENDS ShmLib

MCSites == {"rmw_read", "rmw_write", "mail_read", "mail_write"}

Access(rw, offset, size, info) ==
  [rw |-> rw, offset |-> offset, size |-> size, bufsize |-> size, info |-> info]

\* readModifyWrite: one byte, read then written.
RmwOps == { Access(SHM_READ, 0, 1, "rmw_read"),
            Access(SHM_WRITE, 0, 1, "rmw_write") }

\* Two members that overlap in part, so that ranges matter.
OverlapOps == { Access(SHM_READ, 0, 2, "rmw_read"),
                Access(SHM_WRITE, 1, 1, "mail_write") }

WriteOps == { Access(SHM_WRITE, 0, 1, "rmw_write") }

\* A call shm_op turns away.
BadOp == Access(SHM_WRITE, 0, 0, "mail_read")

MixedOps == RmwOps \cup {BadOp}
=============================================================================
