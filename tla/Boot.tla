-------------------------------- MODULE Boot --------------------------------
(***************************************************************************)
(* From power-on to the first system call: the boot sector (boot.asm), the *)
(* loader (loader.asm), kernel_main up to its idle loop (kernel.cpp), and  *)
(* the int 0x80 of a process.  The order of the steps is fixed by the      *)
(* code; what varies is whether the disk can be read.                      *)
(***************************************************************************)
VARIABLES
    pc,      \* where the processor is
    ready    \* what has been initialised

vars == <<pc, ready>>

Init == pc = "boot_sector" /\ ready = {}

\* int 13h reads the loader and the kernel, or sets the carry flag.
ReadDisk ==
    /\ pc = "boot_sector"
    /\ pc' \in {"loader", "disk_error"}
    /\ UNCHANGED ready

\* A20, lgdt, CR0.PE, far jump, stack at 0x90000, call kernel_main.
EnterProtectedMode ==
    /\ pc = "loader"
    /\ ready' = {"a20", "gdt"}
    /\ pc' = "kernel_main"

\* hal_init, pmm_init, procs_init, the two forks, and the idle loop, whose first
\* sched_yield calls a process.
KernelMain ==
    /\ pc = "kernel_main"
    /\ ready' = ready \cup {"vga", "kbd", "timer", "pmm", "procs"}
    /\ pc' = "process"

\* int 0x80: the interrupt table the BIOS has left has no gate for it.
SystemCall ==
    /\ pc = "process"
    /\ pc' = IF "idt" \in ready THEN "syscall_dispatch" ELSE "fault"
    /\ UNCHANGED ready

SystemReturn ==
    /\ pc = "syscall_dispatch"
    /\ pc' = "process"
    /\ UNCHANGED ready

Next == ReadDisk \/ EnterProtectedMode \/ KernelMain \/ SystemCall \/ SystemReturn

Spec == Init /\ [][Next]_vars

-----------------------------------------------------------------------------
\* idt.cpp:16: the start of the kernel calls idt_init.  So a system call finds a gate.
SystemCallsHaveAGate == pc # "fault"
=============================================================================
