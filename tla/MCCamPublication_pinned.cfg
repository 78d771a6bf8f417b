SPECIFICATION Spec
CONSTANTS
  abi = abi
  ui = ui
  v1 = v1
  v2 = v2
  manager = manager
  Resources = {abi, ui}
  Blobs = {v1, v2}
  Names = {manager}
  AbiOf <- MCAbiOf
  Ui = ui
  Runnable <- MCRunnable
  FirstDoc <- MCFirstDoc
  FirstURI = u1
  FirstBindings <- MCFirstBindings
  a1 = a1
  URIs = {u1, u2}
  Addresses = {a1}
  ZeroHash = ZeroHash
  ZeroAddress = ZeroAddress
  None = None
  AllowUnsigned = FALSE
  MaxEdits = 1
  Torn = Torn
  MaxRefreshes = 1
  MaxUploads = 2
  MaxPublications = 1
  MaxBindings = 1
  MaxPreflights = 1
  MaxLoads = 1
CHECK_DEADLOCK FALSE
INVARIANTS WhatRunsWasChecked
PROPERTIES ImplementsCatalog
