SPECIFICATION Spec
CONSTANTS
  d1 = d1  d2 = d2  c1 = c1  c2 = c2  c3 = c3  i1 = i1  i2 = i2  cap1 = cap1
  s1 = s1  s2 = s2  s3 = s3  None = None
  Devices = {d1}
  Sessions = {s1, s2}
  Calls = {c1, c3}
  CommandIds = {i1, i2}
  Capabilities = {cap1}
  DeviceOf <- OneDevice
  IdOf <- SharedId
  CapabilityOf <- OneCapability
PROPERTY FrameCapabilityEffective
