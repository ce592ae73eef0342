\* One thread, any program, two words, two operations queued.
CONSTANTS
  Threads = {t1}
  Size = 2
  Careful = FALSE
  MaxVersion = 3
  MaxQueued = 2
  MaxEntries = 2
SPECIFICATION Spec
PROPERTIES KernelDataNotOverwritten
