------------------------------ MODULE MCFchCli ------------------------------
EXTENDS FchCli

File(content, size, fails, opens, broken) ==
    [content |-> content, size |-> size, fails |-> fails, opens |-> opens,
     broken |-> broken]

\* Empty, shorter than the buffer, exactly one and two buffers, longer than
\* the context supports; one that fails at once, inside a block and after a
\* full block; one that fails where its last byte was read; one that does
\* not open.
MCFiles ==
    {File("empty", 0, 0, TRUE, FALSE),
     File("short", 2, 2, TRUE, FALSE),
     File("one", 3, 3, TRUE, FALSE),
     File("two", 6, 6, TRUE, FALSE),
     File("long", 8, 8, TRUE, FALSE),
     File("atonce", 4, 0, TRUE, TRUE),
     File("inside", 5, 4, TRUE, TRUE),
     File("after", 5, 3, TRUE, TRUE),
     File("atend", 2, 2, TRUE, TRUE),
     File("missing", 1, 1, FALSE, FALSE)}
=============================================================================
