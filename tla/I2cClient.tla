------------------------------ MODULE I2cClient ------------------------------
(***************************************************************************)
(* The I2C adapter with a client that makes one transfer after another,    *)
(* any of Transfers of the bus it is on, with the faults of that bus.      *)
(***************************************************************************)
EXTENDS I2c

CONSTANT Transfers(_)    \* the transfers the client makes on a bus

ASSUME TransferAssumption ==
    \A e \in Environments : \A ms \in Transfers(e) :
        /\ ms \in Seq(Message)
        /\ \/ \A k \in DOMAIN ms :
                 ~ms[k].rd /\ Len(ms[k].buf) = 2 /\ ms[k].buf[1] \in Regs
           \/ Len(ms) = 2 /\ ~ms[1].rd /\ Len(ms[1].buf) = 1 /\ ms[2].rd

vars == i2cvars

Init == I2cInit

Begin == \E ms \in Transfers(env) : BeginTransfer(ms)

(* i2c_transfer returns to the client. *)
End ==
    /\ pc = "return"
    /\ pc' = "idle"
    /\ UNCHANGED <<env, msgs, msg, idx, timeout, tries, rval, flagRD, ctrl, slave>>

Next == Begin \/ End \/ Cpu \/ Bus \/ Refuse \/ LoseBus

(* The processor goes on, and so does a controller that is not stuck. *)
Spec == Init /\ [][Next]_vars /\ WF_vars(Cpu \/ End) /\ WF_vars(Bus)

-----------------------------------------------------------------------------
(* Properties *)

TypeOK ==
    /\ pc \in {"idle", "bb", "msg", "poll", "reset", "end", "return"}
    /\ msgs \in Seq(Message)
    /\ pc = "poll" => msg \in DOMAIN msgs /\ idx \in DOMAIN msgs[msg].buf
    /\ timeout \in 0 .. Timeout
    /\ tries \in 0 .. Retries - 1
    /\ rval \in {-1} \cup Nat
    /\ flagRD \in BOOLEAN
    /\ stat \subseteq {"ARDY", "XRDY", "RRDY", "NACK", "AL"}
    /\ regs \in [Regs -> Bytes] /\ ptr \in Regs

(* A client that never reads where the bus can be relied on. *)
OnlyWrites ==
    \A e \in Environments : e.timely /\ "late_nack" \notin e.faults =>
        \A ms \in Transfers(e) : \A k \in DOMAIN ms : ~ms[k].rd

(* What WritesReachSlave is about: the bus can tell what got through, and  *)
(* a transfer of writes has just reported success.                         *)
Dependable == env.timely /\ "late_nack" \notin env.faults
WritesSucceeded == pc = "return" /\ rval > 0 /\ \A k \in DOMAIN msgs : ~msgs[k].rd

(* A transfer of writes that reports success has reached the slave: when   *)
(* i2c_transfer returns, each register holds what was last sent to it, and *)
(* so after a retry as well.  A bus where the last byte may be refused, or *)
(* where the status comes late, gives no such promise.                     *)
WritesReachSlave ==
    Dependable /\ WritesSucceeded =>
        \A k \in DOMAIN msgs :
            \/ \E l \in k + 1 .. Len(msgs) : msgs[l].buf[1] = msgs[k].buf[1]
            \/ regs[msgs[k].buf[1]] = msgs[k].buf[2]

(* After the first read no byte is written to the slave again: priv->flags *)
(* is left at I2C_M_RD, and check_error hides XRDY from then on.           *)
ReadEndsWrites ==
    [][flagRD => regs' = regs /\ cur'.sent \in {cur.sent, pend.sent, <<>>}]_vars

(* Every transfer comes back to its caller, whatever the bus does. *)
TransferReturns == pc # "idle" ~> pc = "idle"
=============================================================================
