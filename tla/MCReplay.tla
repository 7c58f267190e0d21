------------------------------- MODULE MCReplay -------------------------------
EXTENDS Replay

\* Buckets with up to three elements more than they hold, one or both at a time; groups
\* that fit when split by one bit, by two or not at all; equal leads in either order.
E(b, k, d) == [bucket |-> b, key |-> k, lead |-> d]
MCElements == {
  <<E(0, 0, 1), E(0, 0, 2), E(0, 0, 3), E(0, 0, 4)>>,                          \* one key
  <<E(0, 0, 2), E(0, 4, 1), E(0, 0, 1), E(0, 4, 3)>>,                          \* split by two bits
  <<E(0, 0, 2), E(0, 4, 1), E(0, 0, 1), E(0, 1, 2), E(0, 4, 3)>>,              \* with a pool member
  <<E(0, 1, 1), E(0, 0, 1), E(0, 0, 1), E(0, 1, 2), E(0, 3, 1), E(0, 1, 1)>>,  \* both sub-masks
  <<E(0, 2, 1), E(0, 0, 2), E(1, 0, 2), E(1, 2, 1), E(0, 2, 2), E(0, 0, 3), E(1, 1, 2),
    E(1, 0, 1), E(1, 0, 1), E(0, 2, 1)>> }                                     \* both overflow
===============================================================================
