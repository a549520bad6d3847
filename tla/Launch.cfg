\* Every image with every way to start it, and requests that are not krun-run's.
SPECIFICATION Spec
CONSTANTS
  Words <- MCWords
  Volumes = {"vol"}
  Images <- MCImages
  Cpus = {0, 2, 255, 257}
  Memories <- MCMemories
  Requests <- MCRequests
  HostEnv <- MCHostEnv
  ExecArgs <- MCExecArgs
  Users <- MCUsers
  Vminit = "/usr/local/bin/vminit"
  Shell = "/bin/sh"
  Hostname = "vm"
  Clone = "/rootfs/clone"
  Newline <- MCNewline
  Number <- MCNumber
INVARIANTS
  GuestRunsTheImage
  GuestHasItsEnvironment
  VMHasWhatWasAsked
  SessionRunsItsCommand
CHECK_DEADLOCK FALSE
