------------------------------ MODULE MCConsole ------------------------------
(* Console with small buffers, and what its processes do.                   *)
EXTENDS Console

Read(n) == Frame("consoleread", "", n)
Write(n) == Frame("uartputc", "", n)
SysSleep(n) == Frame("sys_sleep", "", n)
Kill(p) == Frame("kill", "", p)

Scenario(w1, w2, n, chars) == [work |-> <<w1, w2>>, timer |-> n, typing |-> chars]

MCScenarios ==
  { Scenario(<<Read(2)>>, <<Write(2)>>, 0, <<"a", EOF>>),
    Scenario(<<Write(2)>>, <<Write(1)>>, 0, <<>>),
    Scenario(<<Read(2), Read(2)>>, <<Read(1)>>, 0, <<"a", EOF, NL>>),
    Scenario(<<Read(3)>>, <<Kill(1), Read(1)>>, 0, <<"a", KILL, ERASE, DUMP, EOF>>),
    Scenario(<<Read(3)>>, <<>>, 0, <<"a", "a", "a", NL>>),      \* more than fits
    Scenario(<<SysSleep(1)>>, <<Write(2)>>, 1, <<>>),
    Scenario(<<SysSleep(2)>>, <<Kill(1)>>, 2, <<>>) }
=============================================================================
