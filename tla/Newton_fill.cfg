SPECIFICATION MCSpec
CONSTANTS
  Devices <- MCDevices
  FluxDevices <- MCFluxDevices
  Profiles <- MCProfiles
  PlaneDevices <- MCPlaneDevices
  Solutions <- MCSolutions
  Bern <- MCBern
  dBern <- MCdBern
  n0 = 2
  phi0 = 3
  l0 = 3
  D0 = 36
  epsilon0 = 6
INVARIANTS
  FitsNz EntriesCounted ReadsWhatFillWrote
  ChargeConserved NewtonStepExact FacesAgree NormAgrees
