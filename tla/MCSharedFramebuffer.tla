------------------------- MODULE MCSharedFramebuffer -------------------------
EXTENDS SharedFramebuffer

\* Five numbers hold the two sockets of a reconnect, the client's
\* descriptor and one of the rest of the process, with one to spare.
\* Enumerated, so that the model values Null and None compare with them.
MCFdNums == {3, 4, 5, 6, 7}

MCAddrs == {1, 2, 3}

MCServerKinds == {"fdpass", "segment_tmpfs", "segment_other", "none"}
=============================================================================
