---------------------------- MODULE PublishContract ----------------------------
(***************************************************************************)
(* What PublishPort promises a client (REQ-011), and nothing about how:    *)
(* the host port answered for a (port, vm_port) pair is that pair's alone, *)
(* and stays so until the client unpublishes the pair or detaches or       *)
(* deletes the port.  No promise is lost or changed by failures, restarts  *)
(* or the requests of other ports.                                         *)
(***************************************************************************)
EXTENDS Allocators

VARIABLE promised     \* the host port promised to each pair, or None

Init == promised = NoPublished

\* A host port is promised: again the same one, or one nobody else holds.
Promise(p, v, h) ==
  /\ promised[p][v] \in {None, h}
  /\ \A q \in Ports, w \in VmPorts : promised[q][w] = h => q = p /\ w = v
  /\ promised' = [promised EXCEPT ![p][v] = h]

\* The client gives up one pair, or everything of a port.
Withdraw(p, v) == promised' = PublishRemove(promised, p, v)

WithdrawPort(p) == promised' = PublishRemovePort(promised, p)

Next ==
  \/ \E p \in Ports, v \in VmPorts, h \in HostPorts : Promise(p, v, h)
  \/ \E p \in Ports, v \in VmPorts : Withdraw(p, v)
  \/ \E p \in Ports : WithdrawPort(p)

Spec == Init /\ [][Next]_promised

===============================================================================
