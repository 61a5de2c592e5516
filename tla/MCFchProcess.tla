---------------------------- MODULE MCFchProcess ----------------------------
EXTENDS FchProcess

\* Bytes that all differ.
MCContent == [o \in 0..SizeMax |-> 1 + o]

Serve(first, count) ==
    [o \in {i \in first..(first + count - 1) : i <= SizeMax} |-> Content[o]]

\* Ranges at every aligned offset and at one that is not, some too long for
\* size_t; the reader serves all of the range, or stops short of its end.
MCRequests ==
    [offset : {0, 1, 3, 6, 9, 12}, length : 0..SizeMax, reader : {<< >>},
     memory : {FALSE}]
    \cup
    UNION {[offset : {o}, length : {n}, reader : {Serve(o, n - short)},
            memory : {TRUE}] :
               o \in {0, 1, 3, 6, 9, 12}, n \in 0..SizeMax, short \in {0, 1, 6}}
=============================================================================
