------------------------ MODULE MCAddressVerification ------------------------
EXTENDS AddressVerification

\* Three faults at most.
MCBudgets ==
  {b \in [crashes : 0..2, switches : 0..2, failures : 0..2] :
     b.crashes + b.switches + b.failures <= 3}
================================================================================
