--------------------------- MODULE MCAsyncWritePipe ----------------------------
EXTENDS AsyncWritePipe

MCSeeks == {[nOffset |-> 0, eOrigin |-> "Begin"], [nOffset |-> 3, eOrigin |-> "Begin"],
            [nOffset |-> 2, eOrigin |-> "Cur"], [nOffset |-> 1, eOrigin |-> "End"]}

\* Back to the start of a header whose size is not known yet.
MCBackwards == {[nOffset |-> -1, eOrigin |-> "Cur"]}
MCNone == {}
=============================================================================
