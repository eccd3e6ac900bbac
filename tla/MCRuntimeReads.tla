--------------------------- MODULE MCRuntimeReads ---------------------------
\* A TLC instance of RuntimeReads by itself: a Git source, whose files are kept, and a
\* source without files; the file of the second snapshot has two chunks.
EXTENDS RuntimeReads

MCFileText == <<<<1>>, <<2, 1>>>>
=============================================================================
