------------------------------ MODULE MCSession ------------------------------
(* Two NVIDIA cards and one AMD card, every driver's list in or out of order.    *)
EXTENDS Session

CONSTANTS n1, n2, a1
MCNvidia == {n1, n2}
MCAmd == {a1}

Cuda(card, viable) == [card |-> card, viable |-> viable]
Seen(card, pci, named) == [card |-> card, pci |-> pci, named |-> named]
Nvml(cards, pci) == [i \in DOMAIN cards |-> [card |-> cards[i], pci |-> pci]]

CudaLists == {<<>>, <<Cuda(n2, TRUE)>>}
             \cup {<<Cuda(n1, v), Cuda(n2, w)>> : v, w \in BOOLEAN}
ClLists == {<<>>, <<Seen(a1, FALSE, TRUE), Seen(n2, TRUE, TRUE)>>,
            <<Seen(n1, TRUE, TRUE), Seen(n2, TRUE, FALSE)>>,
            <<Seen(n1, TRUE, TRUE), Seen(n2, TRUE, TRUE), Seen(n2, TRUE, TRUE)>>}
NvmlLists == {<<>>, Nvml(<<n1, n2>>, TRUE), Nvml(<<n2, n1>>, TRUE),
              Nvml(<<n1>>, TRUE), Nvml(<<n1, n2>>, FALSE)}
MCRigs == [cuda : CudaLists, cl : ClLists, nvml : NvmlLists]

Index(i) == [by |-> "index", at |-> i]
MCSpecs == {<<>>, <<[by |-> "all"]>>, <<Index(2)>>, <<Index(2), Index(1)>>,
            <<Index(1), Index(2), Index(1)>>, <<[by |-> "vendor", at |-> MCNvidia], Index(1)>>,
            <<[by |-> "pci", at |-> n2]>>}
MCPowerLists == {<<200>>, <<0, 150>>}
MCStored == [c \in {n1, n2, a1} |-> IF c = n1 THEN 110 ELSE IF c = n2 THEN 120 ELSE 0]
==============================================================================
