------------------------------ MODULE WosIoctl ------------------------------
(***************************************************************************)
(* utils/wos/ioctl: the handle of a device driver, found by its symbolic   *)
(* link.  A handle that is there is given up first.                        *)
(***************************************************************************)
EXTENDS ProviderSession

Init == lib = "ioctl" /\ SessionInit

(* ioctl_get_device_symbolic_link asks for the list until it fits its       *)
(* buffer; the buffer and the request are freed however that ends.          *)
LinkOutcome == {"found", "absent", "failed"}

FreeHandle(m) == Release(m, {"handle"})

(* A handle that CreateFile could not make (INVALID_HANDLE_VALUE) is closed *)
(* like any other, and cleared.                                             *)
GetDeviceHandle ==
  \E link \in LinkOutcome :
    LET m == FreeHandle(mem) IN
    Failed(FreeHandle(m)) \/ (link = "found" /\ Opened(Take(m, "handle"), NoSize))

FreeDeviceHandle == Closed(FreeHandle(mem), "success")

Next == GetDeviceHandle \/ FreeDeviceHandle
=============================================================================
