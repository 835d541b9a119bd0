---------------------------- MODULE MCUpdateFlow ----------------------------
EXTENDS UpdateFlow
\* The second and third build share their chunk: it is copied forward.
Chunks == <<"a", "b", "b">>
=============================================================================
