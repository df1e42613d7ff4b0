--------------------------- MODULE MCWinDriverPort ---------------------------
(* Two opens: of an infected file, and of a clean one on a device whose name *)
(* contains that of the first drive.                                         *)
EXTENDS WinDriverPort, TLC

MCOpens == {"a", "b"}
MCVerdict == [o \in MCOpens |-> IF o = "a" THEN "MALWARE" ELSE "CLEAN"]
MCDevice == [o \in MCOpens |-> IF o = "a" THEN "Volume1" ELSE "Volume10"]
MCDrives == <<"Volume1", "Volume10">>
MCOccurs == {<<MCDevice[o], o>> : o \in MCOpens} \cup {<<"Volume1", "b">>}
==============================================================================
