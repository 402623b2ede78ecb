------------------------------ MODULE Protection ------------------------------
(***************************************************************************)
(* The protection of code pages and VirtualProtect of                      *)
(* library/source/windows_wrapper.cpp, which translates the protections of *)
(* one system to those of the other and back.                              *)
(***************************************************************************)
EXTENDS Sequences, Functions

CONSTANTS
  Pages,
  CodeProtection    \* CodeProtection[p]: the protection the loader gave page p

VARIABLE prot       \* what the processor lets code do with each page

Bits == {"read", "write", "exec"}

WinProtections == {"PAGE_READONLY", "PAGE_READWRITE", "PAGE_EXECUTE", "PAGE_EXECUTE_READ",
                   "PAGE_EXECUTE_READWRITE", "none"}

convert_to_sce_protection(flProtect) ==
  CASE flProtect = "PAGE_READONLY" -> {"read"}
    [] flProtect = "PAGE_READWRITE" -> {"read", "write"}
    [] flProtect = "PAGE_EXECUTE" -> {"exec"}
    [] flProtect = "PAGE_EXECUTE_READ" -> {"read", "exec"}
    [] flProtect = "PAGE_EXECUTE_READWRITE" -> Bits
    [] OTHER -> {}

\* Pages that can be written but not read become pages that cannot.
convert_to_win_protection(protection) ==
  LET readable == "read" \in protection
      writable == readable /\ "write" \in protection
  IN  IF "exec" \in protection
      THEN IF writable THEN "PAGE_EXECUTE_READWRITE"
           ELSE IF readable THEN "PAGE_EXECUTE_READ" ELSE "PAGE_EXECUTE"
      ELSE IF writable THEN "PAGE_READWRITE"
           ELSE IF readable THEN "PAGE_READONLY" ELSE "none"

Init == prot = CodeProtection

\* Slip: the old protection is asked for when it is gone.
OldProtectLate(range) == "PAGE_EXECUTE_READWRITE"

\* lpflOldProtect: what the first page of the range had.
OldProtect(range) == convert_to_win_protection(prot[range[1]])

\* Slip: memory that is to be written need not be executed.
VirtualProtectData(range, flNewProtect) ==
  prot' = [p \in Pages |-> IF p \in Range(range) THEN {"read", "write"} ELSE prot[p]]

\* The call that succeeds; it sets all pages that the range touches.
VirtualProtect(range, flNewProtect) ==
  prot' = [p \in Pages |-> IF p \in Range(range)
                           THEN convert_to_sce_protection(flNewProtect) ELSE prot[p]]
===============================================================================
