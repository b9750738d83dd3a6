---------------------------- MODULE MCSnapRestore ----------------------------
(* Instances of SnapRestore for TLC: pages on both sides of every boundary.  *)
EXTENDS SnapRestore

\* The numbers of the scripts: pages for dd, bytes for pmemload.
MCNumPages == 262144       \* 1G
MCHoleFirst == 2059        \* 0x80b000, the trampoline's code, stack and mailbox
MCHoleEnd == 2062
MCDd1Count == 2059         \* 0x80b
MCDd2Skip == 2062          \* 0x80e
MCDd2Count == 260082       \* 0x3f7f2
MCLoad1Size == 8433664     \* 0x80b000
MCLoad2Val == 8445952      \* 0x80e000
MCLoad2Size == 1065295872  \* 0x3F7F2000
MCGdtPage == 249867    \* 0x3d00b000 >> 12

MCPtePage == 6145      \* a page table of the kernel, above the hole
MCPages == {0, 2058, 2059, 2060, 2061, 2062, MCPtePage, MCGdtPage, 262143}
\* Files that end before the last page of the guest, and within the first part.
MCCuts == {2058, 260081}

\* Nothing fails; harmless failures; failures of QEMU's commands and of what is
\* waited for; failures of the tools that write the snapshot's files.
CommandFaults == {"slowboot", "early", "connect", "hmp", "cr3", "savevm",
                  "pmemsave", "devsave", "load1", "load2", "devload", "flag", "cont"}
FileFaults == {"cr3", "short", "modify", "dd1", "dd2", "regs", "gcc", "blob"}
MCFaultSets == {{}, HarmlessFaults, CommandFaults, FileFaults}
=============================================================================
