-------------------------- MODULE MCConveyorOutputs --------------------------
\* Values for TLC: one confirming and one clearing sample, as the outputs do
\* not depend on how long a streak has to be.
EXTENDS ConveyorOutputs

One == 1
Two == 2
=============================================================================
