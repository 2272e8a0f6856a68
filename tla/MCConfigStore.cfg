\* The daemon with two threads and a command beside it; one client, source and
\* entry; two I/O errors, crashes or lost keys.
SPECIFICATION Spec
CONSTANTS
  a1 = a1
  a2 = a2
  b = b
  daemon = daemon
  command = command
  Proc = {daemon, command}
  Op = {a1, a2, b}
  Daemon = {daemon}
  Home <- TwoThreads
  Organizer = organizer
  Client = {client}
  Source = {source}
  Entry = {entry}
  Absent = Absent
  Bad = Bad
  Ok = Ok
  Off = Off
  Keep = Keep
  Password = {pw}
  k1 = k1
  k2 = k2
  Key = {k1, k2}
  MaxEvents = 2
SYMMETRY Symmetric
INVARIANTS
  IInv
  RuntimeAgrees
PROPERTY AtomicUpdates
