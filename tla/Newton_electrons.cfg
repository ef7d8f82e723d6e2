SPECIFICATION MCSpec
CONSTANTS
  Devices <- NoDevices
  FluxDevices <- NoDevices
  Profiles <- MCProfiles
  PlaneDevices <- MCPlaneDevices
  Solutions <- MCSolutions
  Bern <- MCBern
  dBern <- MCdBern
  n0 = 2
  phi0 = 3
  l0 = 3
  D0 = 36
  epsilon0 = 6
INVARIANT ElectronsConserved
