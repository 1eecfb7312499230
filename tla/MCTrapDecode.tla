---------------------------- MODULE MCTrapDecode ----------------------------
(* TrapDecode with an empty table, as the repository has it, tables whose   *)
(* codes meet, and tables with a word in them.                             *)
EXTENDS TrapDecode

Entry(k, n) == [key |-> k, id |-> n]

MCIps   == {"ip1", "ip2"}
MCCodes == {<<7>>, <<4, 0, 1, 7>>}

MCIpFiles   == {<< >>, <<Entry("ip1", 3), Entry("ip1", 4)>>,
                <<Entry("ip1", Text), Entry("ip2", 3)>>, Missing}
MCCodeFiles == {<<Entry(<<4, 0, 1, 7>>, 5), Entry(<<4, 0, 1, 7>>, 6), Entry(<<7>>, 4096)>>,
                <<Entry(<<4, 1, 4, 7>>, 0), Entry(<<7>>, 8)>>,
                <<Entry(<<7>>, 8), Entry(<<4, 0, 1, 7>>, Text)>>, Missing}

=============================================================================
