---------------------------- MODULE BootLoaderMC ----------------------------
(* Images for BootLoader.                                                    *)
EXTENDS BootLoader

\* Blocks of two chunks, the second one short.  The blocks of the first and the third memory
\* type are alike, the second type is empty.
TwoChunks == [blockSize |-> 15,
              image |-> << <<<<1, 2>>, <<1, 1>>>>, <<>>, <<<<1, 2>>>> >>]

\* Blocks of one chunk, two of them alike.
OneChunk == [blockSize |-> 8, image |-> << <<<<1>>, <<1>>>>, <<<<2>>>> >>]

TwoLoads == {OneChunk, TwoChunks}
OneLoad == {OneChunk}
=============================================================================
